---- MODULE Spec2Model ----
(***************************************************************************)
(* Model of the goapi library.                                             *)
(*                                                                         *)
(*   SpecDI / FairSpecDI : the dependency container                        *)
(*       (goapi/dependencies/dependencies.go): Register,                   *)
(*       RegisterSingleton, Resolve and the memoizing closure, run by      *)
(*       concurrent goroutines over one sync.RWMutex.                      *)
(*   SpecDoc : the route registry and the document assembler               *)
(*       (goapi/goapi.go, goapi/router/router.go): AddRoute, SetupRoutes,  *)
(*       getSwaggerJSON and the handler of /openapi.json.                  *)
(*   SpecPaths, SpecOptions : the same registry with registrations that    *)
(*       differ in their path only, or in their parameter options only.    *)
(*   SpecGroups : route groups (goapi/router/router.go).                   *)
(*   SpecExtract, SpecRequired, SpecSynthesize, SpecFieldSchema :          *)
(*       extractParameters, generateSchemaFromStruct and getFieldSchema    *)
(*       called with each argument of a bounded set.                       *)
(*   SpecFormat, SpecParse : FormatValidationErrors and ParseQueryParams   *)
(*       (goapi/responses/responses.go), called the same way.              *)
(*   SpecOrder : AddRoute called with every short list of options.         *)
(*   SpecRegistry : direct and group registrations with SetupRoutes.       *)
(*   SpecStartup : SetupRoutes followed by Run.                            *)
(*   SpecRateLimit : the handler of middleware.RateLimit run by            *)
(*       concurrent request goroutines.                                    *)
(***************************************************************************)
EXTENDS Integers, Sequences, FiniteSets, TLC

VARIABLES
    \* ---- dependency container ----
    providers,   \* dc.providers : type key -> registered provider
    instances,   \* dc.instances : type key -> memoized instance
    mutexW,      \* dc.mutex : goroutine that has called Lock (pending or holding)
    readers,     \* dc.mutex : number of read locks each goroutine holds
    pc,          \* position of each goroutine
    op,          \* arguments of the call each goroutine is running
    prov,        \* Resolve's local `provider`
    ret,         \* (instance, err) returned by the provider call
    result,      \* outcome of the last finished call of each goroutine
    target,      \* the storage location *target of each goroutine's Resolve
    calls,       \* history: invocations of each user-supplied provider
    regWits,     \* history: witness types of the finished registrations
    opsLeft,     \* calls that may still be started
    \* ---- route registry and document ----
    routes,          \* apiInstance.routes
    swaggerContent,  \* the string captured by the /openapi.json handler
    ginRoutes,       \* (method, path) pairs registered in the gin engine
    handed,          \* history: what has been handed to the gin engine
    swagRegistered,  \* swag.Register has been called for "swagger"
    setupState,      \* "new", "done" or "panicked"; "serving" or
                     \* "run_panicked" after Run
    routesAtSetup,   \* history: apiInstance.routes when the document was built
    lastBody,        \* body of the last response to GET /openapi.json
    lastBodyRoutes,  \* history: Len(routes) when that response was sent
    groups,          \* the RouterGroup values created so far
    routeOrigin,     \* history: the call that appended each route
    \* ---- pure functions ----
    fnArg,           \* the argument a function is called with
    fnRes,           \* what the call returned
    \* ---- rate limiter ----
    requestsPerMinute, \* config.RequestsPerMinute
    requestCounts,   \* the map requestCounts of the RateLimit closure
    resetDue,        \* time.Since(lastReset) > time.Minute
    request,         \* the request each goroutine is handling
    passed,          \* history: c.Next() calls for each IP since the last reset
    requestsLeft     \* requests that may still arrive

diVars  == <<providers, instances, mutexW, readers, pc, op, prov, ret, result,
             target, calls, regWits, opsLeft>>
docVars == <<routes, swaggerContent, ginRoutes, handed, swagRegistered, setupState,
             routesAtSetup, lastBody, lastBodyRoutes, groups, routeOrigin>>
fnVars  == <<fnArg, fnRes>>
rateVars == <<requestsPerMinute, requestCounts, resetDue, request, passed,
              requestsLeft>>
vars    == <<diVars, docVars, fnVars, rateVars>>

(***************************************************************************)
(* Bounds                                                                  *)
(***************************************************************************)
MaxOps    == 3      \* container calls started in one behaviour
MaxRoutes == 2      \* AddRoute calls in one behaviour
MaxPathLen == 6     \* characters of a path handed to extractParameters
MaxFields == 2      \* fields of a struct handed to generateSchemaFromStruct
MaxFailures == 2    \* field failures of one validator.ValidationErrors
MaxParams == 2      \* query parameters declared in one call of ParseQueryParams
MaxGroups == 2      \* RouterGroup values created in one behaviour
MaxOptions == 4     \* options handed to one call of AddRoute
MaxLimit == 2       \* largest RequestsPerMinute the limiter is configured with
MaxRequests == 3    \* requests that reach the limiter in one behaviour

(***************************************************************************)
(* Dependency container: values                                            *)
(***************************************************************************)
Threads == {"g1", "g2"}
NoThread == "none"

\* reflect.Type of a witness or of a Resolve target.  "nil" is the untyped
\* nil interface, for which reflect.TypeOf returns a nil Type.
Types   == {"nil", "A", "*A", "**A"}
IsPtr(t) == t \in {"*A", "**A"}
Elem(t)  == IF t = "**A" THEN "*A" ELSE "A"
Keys     == {"A", "*A"}

\* User-supplied providers: what they return and the dynamic type of it.
Providers == {"pVal", "pPtr", "pErr"}
ProviderFails(p) == p = "pErr"
ProviderType(p)  == IF p = "pPtr" THEN "*A" ELSE "A"

NoProvider == [pid |-> "none", single |-> FALSE, key |-> "none"]
NoInst     == [pid |-> "none", n |-> 0]
NoErr      == [kind |-> "none", pid |-> "none"]
NoRet      == [inst |-> NoInst, err |-> NoErr]
NoOp       == [kind |-> "none", arg |-> "nil", pid |-> "none", single |-> FALSE,
               seen |-> {}]
NoResult   == [status |-> "none", wraps |-> NoErr]

\* The /openapi.json handler does not exist yet, or no response was sent yet
NoContent  == [swagger |-> "unset"]

(***************************************************************************)
(* sync.RWMutex as used by the container.  Lock first excludes the other   *)
(* writers and new readers (mutexW), then waits for the read locks already *)
(* held to be released; RLock blocks while a writer is pending or holding. *)
(***************************************************************************)
RECURSIVE SumReaders(_, _)
SumReaders(r, S) ==
    IF S = {} THEN 0
    ELSE LET t == CHOOSE x \in S : TRUE IN r[t] + SumReaders(r, S \ {t})

TotalReaders == SumReaders(readers, Threads)
CanRLock     == mutexW = NoThread
CanLock      == mutexW = NoThread
LockGranted  == TotalReaders = 0

(***************************************************************************)
(* Register / RegisterSingleton                                            *)
(***************************************************************************)
\* targetType := reflect.TypeOf(target); pointer types unwrap to the pointee
TypeKey(w) == IF IsPtr(w) THEN Elem(w) ELSE w

\* dc.providers[targetType] = provider
RegisterEntry(p, w) == [pid |-> p, single |-> FALSE, key |-> TypeKey(w)]

\* dc.providers[targetType] = func(c) {...}: the closure captures provider
\* and targetType
RegisterSingletonEntry(p, w) == [pid |-> p, single |-> TRUE, key |-> TypeKey(w)]

Register(t, p, w) ==
    /\ pc[t] = "idle"
    /\ opsLeft > 0
    /\ opsLeft' = opsLeft - 1
    /\ op' = [op EXCEPT ![t] = [kind |-> "register", arg |-> w, pid |-> p,
                                single |-> FALSE, seen |-> {}]]
    /\ pc' = [pc EXCEPT ![t] = "G_lock"]
    /\ result' = [result EXCEPT ![t] = NoResult]
    /\ UNCHANGED <<providers, instances, mutexW, readers, prov, ret, target,
                   calls, regWits>>
    /\ UNCHANGED <<docVars, fnVars, rateVars>>

RegisterSingleton(t, p, w) ==
    /\ pc[t] = "idle"
    /\ opsLeft > 0
    /\ opsLeft' = opsLeft - 1
    /\ op' = [op EXCEPT ![t] = [kind |-> "register", arg |-> w, pid |-> p,
                                single |-> TRUE, seen |-> {}]]
    /\ pc' = [pc EXCEPT ![t] = "G_lock"]
    /\ result' = [result EXCEPT ![t] = NoResult]
    /\ UNCHANGED <<providers, instances, mutexW, readers, prov, ret, target,
                   calls, regWits>>
    /\ UNCHANGED <<docVars, fnVars, rateVars>>

\* dc.mutex.Lock(): exclude other writers and new readers
RegisterLock(t) ==
    /\ pc[t] = "G_lock"
    /\ CanLock
    /\ mutexW' = t
    /\ pc' = [pc EXCEPT ![t] = "G_wait"]
    /\ UNCHANGED <<providers, instances, readers, op, prov, ret, result,
                   target, calls, regWits, opsLeft>>
    /\ UNCHANGED <<docVars, fnVars, rateVars>>

\* Lock returns; the body stores the provider; the deferred Unlock runs
RegisterStore(t) ==
    /\ pc[t] = "G_wait"
    /\ LockGranted
    /\ providers' = [providers EXCEPT ![TypeKey(op[t].arg)] =
                        IF op[t].single
                        THEN RegisterSingletonEntry(op[t].pid, op[t].arg)
                        ELSE RegisterEntry(op[t].pid, op[t].arg)]
    /\ mutexW' = NoThread
    /\ regWits' = regWits \cup {op[t].arg}
    /\ result' = [result EXCEPT ![t] = [status |-> "registered", wraps |-> NoErr]]
    /\ pc' = [pc EXCEPT ![t] = "idle"]
    /\ UNCHANGED <<instances, readers, op, prov, ret, target, calls, opsLeft>>
    /\ UNCHANGED <<docVars, fnVars, rateVars>>

(***************************************************************************)
(* Resolve                                                                 *)
(***************************************************************************)
\* Lines 84-93.  reflect.TypeOf(nil) is a nil Type and Kind() on it is a nil
\* dereference.
LookupOutcome(tgt, provs) ==
    IF tgt = "nil" THEN "panic"
    ELSE IF ~IsPtr(tgt) THEN "err_notptr"
    ELSE IF provs[Elem(tgt)] = NoProvider THEN "err_noprovider"
    ELSE "found"

\* What a user-supplied provider returns on its n-th invocation.  Every
\* successful invocation builds a new instance.
ProviderCall(p, n) ==
    IF ProviderFails(p)
    THEN [inst |-> NoInst, err |-> [kind |-> "provider", pid |-> p]]
    ELSE [inst |-> [pid |-> p, n |-> n], err |-> NoErr]

\* A Resolve that formats the provider's error without wrapping it
WrapProviderError_Unwrapped(err) == [status |-> "err_wrapped", wraps |-> NoErr]

\* fmt.Errorf("error resolving dependency: %w", err)
WrapProviderError(err) == [status |-> "err_wrapped", wraps |-> err]

\* reflect.Value.Set panics unless the value is assignable to the location
Assignable(inst, elemType) == ProviderType(inst.pid) = elemType

Resolve(t, tgt) ==
    /\ pc[t] = "idle"
    /\ opsLeft > 0
    /\ opsLeft' = opsLeft - 1
    /\ op' = [op EXCEPT ![t] = [kind |-> "resolve", arg |-> tgt, pid |-> "none",
                                single |-> FALSE, seen |-> regWits]]
    /\ pc' = [pc EXCEPT ![t] = "R_rlock"]
    /\ result' = [result EXCEPT ![t] = NoResult]
    /\ target' = [target EXCEPT ![t] = NoInst]
    /\ prov' = [prov EXCEPT ![t] = NoProvider]
    /\ ret' = [ret EXCEPT ![t] = NoRet]
    /\ UNCHANGED <<providers, instances, mutexW, readers, calls, regWits>>
    /\ UNCHANGED <<docVars, fnVars, rateVars>>

\* dc.mutex.RLock(); defer dc.mutex.RUnlock()
ResolveRLock(t) ==
    /\ pc[t] = "R_rlock"
    /\ CanRLock
    /\ readers' = [readers EXCEPT ![t] = @ + 1]
    /\ pc' = [pc EXCEPT ![t] = "R_lookup"]
    /\ UNCHANGED <<providers, instances, mutexW, op, prov, ret, result, target,
                   calls, regWits, opsLeft>>
    /\ UNCHANGED <<docVars, fnVars, rateVars>>

\* Lines 84-93: the type checks and the map lookup.  An error return or a
\* panic runs the deferred RUnlock.
ResolveLookup(t) ==
    /\ pc[t] = "R_lookup"
    /\ LET out == LookupOutcome(op[t].arg, providers) IN
         IF out = "found"
         THEN /\ prov' = [prov EXCEPT ![t] = providers[Elem(op[t].arg)]]
              /\ pc' = [pc EXCEPT ![t] =
                          IF providers[Elem(op[t].arg)].single
                          THEN "S_rlock" ELSE "P_call"]
              /\ UNCHANGED <<readers, result>>
         ELSE /\ result' = [result EXCEPT ![t] = [status |-> out, wraps |-> NoErr]]
              /\ readers' = [readers EXCEPT ![t] = @ - 1]
              /\ pc' = [pc EXCEPT ![t] = "idle"]
              /\ UNCHANGED prov
    /\ UNCHANGED <<providers, instances, mutexW, op, ret, target, calls,
                   regWits, opsLeft>>
    /\ UNCHANGED <<docVars, fnVars, rateVars>>

\* A Resolve that memoizes what every provider returns
PlainProvider_Memoized(t) ==
    /\ pc[t] = "P_call"
    /\ calls' = [calls EXCEPT ![prov[t].pid] = @ + 1]
    /\ ret' = [ret EXCEPT ![t] = ProviderCall(prov[t].pid, calls[prov[t].pid] + 1)]
    /\ instances' = [instances EXCEPT ![prov[t].key] = ret'[t].inst]
    /\ pc' = [pc EXCEPT ![t] = "R_ret"]
    /\ UNCHANGED <<providers, mutexW, readers, op, prov, result,
                   target, regWits, opsLeft>>
    /\ UNCHANGED <<docVars, fnVars, rateVars>>

\* Line 95 when the looked-up provider is one stored by Register
PlainProvider(t) ==
    /\ pc[t] = "P_call"
    /\ calls' = [calls EXCEPT ![prov[t].pid] = @ + 1]
    /\ ret' = [ret EXCEPT ![t] = ProviderCall(prov[t].pid, calls[prov[t].pid] + 1)]
    /\ pc' = [pc EXCEPT ![t] = "R_ret"]
    /\ UNCHANGED <<providers, instances, mutexW, readers, op, prov, result,
                   target, regWits, opsLeft>>
    /\ UNCHANGED <<docVars, fnVars, rateVars>>

\* Line 95 when the looked-up provider is the closure stored by
\* RegisterSingleton (lines 53-76); the caller still holds Resolve's read lock.
\*   S_rlock : RLock, the first check of dc.instances, RUnlock (54-59)
\*   S_lock  : dc.mutex.Lock() excludes other writers and new readers (61)
\*   S_wait  : Lock returns once no read lock is held; second check, the
\*             underlying provider, the store and the deferred Unlock (62-75)
SingletonProvider(t) ==
    /\ pc[t] \in {"S_rlock", "S_lock", "S_wait"}
    /\ LET k == prov[t].key
           p == prov[t].pid
           r == ProviderCall(p, calls[p] + 1)
       IN
         IF pc[t] = "S_rlock"
         THEN /\ CanRLock
              /\ IF instances[k] # NoInst
                 THEN /\ ret' = [ret EXCEPT ![t] = [inst |-> instances[k], err |-> NoErr]]
                      /\ pc' = [pc EXCEPT ![t] = "R_ret"]
                 ELSE /\ pc' = [pc EXCEPT ![t] = "S_lock"]
                      /\ UNCHANGED ret
              /\ UNCHANGED <<instances, mutexW, calls>>
         ELSE IF pc[t] = "S_lock"
         THEN /\ CanLock
              /\ mutexW' = t
              /\ pc' = [pc EXCEPT ![t] = "S_wait"]
              /\ UNCHANGED <<instances, ret, calls>>
         ELSE /\ LockGranted
              /\ IF instances[k] # NoInst
                 THEN /\ ret' = [ret EXCEPT ![t] = [inst |-> instances[k], err |-> NoErr]]
                      /\ UNCHANGED <<instances, calls>>
                 ELSE /\ calls' = [calls EXCEPT ![p] = @ + 1]
                      /\ ret' = [ret EXCEPT ![t] = r]
                      /\ instances' = IF r.err # NoErr THEN instances
                                      ELSE [instances EXCEPT ![k] = r.inst]
              /\ mutexW' = NoThread
              /\ pc' = [pc EXCEPT ![t] = "R_ret"]
    /\ UNCHANGED <<providers, readers, op, prov, result, target, regWits, opsLeft>>
    /\ UNCHANGED <<docVars, fnVars, rateVars>>

\* Lines 96-101 and the deferred RUnlock
ResolveReturn(t) ==
    /\ pc[t] = "R_ret"
    /\ IF ret[t].err # NoErr
       THEN /\ result' = [result EXCEPT ![t] = WrapProviderError(ret[t].err)]
            /\ UNCHANGED target
       ELSE IF Assignable(ret[t].inst, Elem(op[t].arg))
       THEN /\ target' = [target EXCEPT ![t] = ret[t].inst]
            /\ result' = [result EXCEPT ![t] = [status |-> "ok", wraps |-> NoErr]]
       ELSE /\ result' = [result EXCEPT ![t] = [status |-> "panic", wraps |-> NoErr]]
            /\ UNCHANGED target
    /\ readers' = [readers EXCEPT ![t] = @ - 1]
    /\ pc' = [pc EXCEPT ![t] = "idle"]
    /\ UNCHANGED <<providers, instances, mutexW, op, prov, ret, calls,
                   regWits, opsLeft>>
    /\ UNCHANGED <<docVars, fnVars, rateVars>>

\* NewDependencyContainer
InitDI ==
    /\ providers = [k \in Keys |-> NoProvider]
    /\ instances = [k \in Keys |-> NoInst]
    /\ mutexW = NoThread
    /\ readers = [t \in Threads |-> 0]
    /\ pc = [t \in Threads |-> "idle"]
    /\ op = [t \in Threads |-> NoOp]
    /\ prov = [t \in Threads |-> NoProvider]
    /\ ret = [t \in Threads |-> NoRet]
    /\ result = [t \in Threads |-> NoResult]
    /\ target = [t \in Threads |-> NoInst]
    /\ calls = [p \in Providers |-> 0]
    /\ regWits = {}
    /\ opsLeft = MaxOps

\* New (goapi.go): an empty registry, nothing handed to gin yet
InitDoc ==
    /\ routes = <<>>
    /\ swaggerContent = NoContent
    /\ ginRoutes = {}
    /\ handed = [docs |-> 0, routes |-> <<>>]
    /\ swagRegistered = FALSE
    /\ setupState = "new"
    /\ routesAtSetup = <<>>
    /\ lastBody = NoContent
    /\ lastBodyRoutes = 0
    /\ groups = <<>>
    /\ routeOrigin = <<>>

\* No function has been called
NoCall == [fn |-> "none"]
InitFn ==
    /\ fnArg = NoCall
    /\ fnRes = NoCall

\* make(map[...]...)
EmptyMap == [x \in {} |-> x]

\* The addresses c.ClientIP() returns
ClientIPs == {"ip1", "ip2"}

\* RateLimit(config) has returned its handler: an empty map, lastReset now,
\* RequestsPerMinute one of limits; no request is being handled
InitRateLimit(limits) ==
    /\ requestsPerMinute \in limits
    /\ requestCounts = EmptyMap
    /\ resetDue = FALSE
    /\ request = [t \in Threads |->
                     [pc |-> "idle", clientIP |-> "none", currentCount |-> 0,
                      status |-> "none"]]
    /\ passed = [ip \in ClientIPs |-> 0]
    /\ requestsLeft = MaxRequests

Init == InitDI /\ InitDoc /\ InitFn /\ InitRateLimit({1})

\* The calls a goroutine can make and the steps of the call it is in.
\* Witnesses are typed values; a Resolve target may also be the nil interface.
ThreadStep(t) ==
    \/ \E p \in Providers, w \in Types \ {"nil"} : Register(t, p, w)
    \/ \E p \in Providers, w \in Types \ {"nil"} : RegisterSingleton(t, p, w)
    \/ RegisterLock(t)
    \/ RegisterStore(t)
    \/ \E tgt \in Types : Resolve(t, tgt)
    \/ ResolveRLock(t)
    \/ ResolveLookup(t)
    \/ PlainProvider(t)
    \/ SingletonProvider(t)
    \/ ResolveReturn(t)

NextDI == \E t \in Threads : ThreadStep(t)

SpecDI == Init /\ [][NextDI]_vars

\* Every goroutine that can take a step eventually takes one
FairSpecDI == SpecDI /\ \A t \in Threads : WF_vars(ThreadStep(t))

(***************************************************************************)
(* Strings.  A path is the sequence of its characters, so that               *)
(* strings.Split, strings.HasPrefix and strings.Join are computed.           *)
(***************************************************************************)
\* strings.Split(path, "/"): the segments between the separators
RECURSIVE SplitFrom(_, _, _)
SplitFrom(path, i, cur) ==
    IF i > Len(path) THEN <<cur>>
    ELSE IF path[i] = "/" THEN <<cur>> \o SplitFrom(path, i + 1, <<>>)
    ELSE SplitFrom(path, i + 1, Append(cur, path[i]))

Split(path) == SplitFrom(path, 1, <<>>)

\* strings.Join(segments, "/")
RECURSIVE Join(_)
Join(segments) ==
    IF Len(segments) = 0 THEN <<>>
    ELSE IF Len(segments) = 1 THEN segments[1]
    ELSE segments[1] \o <<"/">> \o Join(Tail(segments))

\* strings.Contains(segment, ":")
HasColonPrefix_Contains(segment) ==
    \E i \in 1..Len(segment) : segment[i] = ":"

\* strings.HasPrefix(segment, ":")
HasColonPrefix(segment) == Len(segment) > 0 /\ segment[1] = ":"

\* strings.ToLower on the HTTP verbs
ToLower(m) ==
    CASE m = "GET" -> "get"
      [] m = "POST" -> "post"
      [] m = "PUT" -> "put"
      [] m = "DELETE" -> "delete"
      [] m = "PATCH" -> "patch"
      [] OTHER -> m

\* The paths of the documentation routes
PathRoot        == <<"/">>
PathDocs        == <<"/", "d", "o", "c", "s">>
PathRedoc       == <<"/", "r", "e", "d", "o", "c">>
PathSwaggerAny  == <<"/", "s", "w", "a", "g", "g", "e", "r", "/", "*", "a", "n", "y">>
PathRedocIndex  == <<"/", "r", "e", "d", "o", "c", "/", "i", "n", "d", "e", "x", ".",
                     "h", "t", "m", "l">>
PathOpenAPI     == <<"/", "o", "p", "e", "n", "a", "p", "i", ".", "j", "s", "o", "n">>
PathDocsStatic  == <<"/", "d", "o", "c", "s", "-", "s", "t", "a", "t", "i", "c", "/",
                     "*", "f", "i", "l", "e", "p", "a", "t", "h">>

\* The shorter list of generateSwaggerTemplate
IsDocPath_TemplateList(path) ==
    path \in {PathRoot, PathDocs, PathRedoc, PathSwaggerAny, PathRedocIndex}

\* The condition of the `continue` in getSwaggerJSON
IsDocPath(path) ==
    path \in {PathRoot, PathDocs, PathRedoc, PathSwaggerAny, PathRedocIndex,
              PathOpenAPI, PathDocsStatic}

(***************************************************************************)
(* Routes, parameters and route options (router.go)                        *)
(***************************************************************************)
NoSchema == [kind |-> "nil", isNil |-> TRUE, elem |-> <<>>, fields |-> <<>>]

\* router.Route as AddRoute builds it before the options run
NewRoute(method, path) ==
    [Method |-> method, Path |-> path, Tags |-> <<>>, Summary |-> "",
     Description |-> "", Responses |-> EmptyMap, Parameters |-> <<>>]

\* router.Parameter as WithParameter builds it
NewParameter(name, in, paramType, description, required) ==
    [Name |-> name, In |-> in, Type |-> paramType, Format |-> "",
     Required |-> required, Description |-> description, Schema |-> NoSchema]

\* router.Parameter as WithRequestBody builds it
BodyParameter(schema, description) ==
    [Name |-> <<"b", "o", "d", "y">>, In |-> "body", Type |-> "", Format |-> "",
     Required |-> TRUE, Description |-> description, Schema |-> schema]

WithTags(tags)           == [opt |-> "tags", tags |-> tags]
WithSummary(summary)     == [opt |-> "summary", summary |-> summary]
WithDescription(d)       == [opt |-> "description", description |-> d]
WithResponse(code, d)    == [opt |-> "response", code |-> code, description |-> d]
WithParameter(name, in, paramType, description, required) ==
    [opt |-> "parameter",
     parameter |-> NewParameter(name, in, paramType, description, required)]
WithPathParameter(name, paramType, description) ==
    WithParameter(name, "path", paramType, description, TRUE)
WithQueryParameter(name, paramType, description, required) ==
    WithParameter(name, "query", paramType, description, required)
WithRequestBody(schema, description) ==
    [opt |-> "parameter", parameter |-> BodyParameter(schema, description)]
WithJSONSchema(example, description) == WithRequestBody(example, description)

\* Options whose summary and description keep the value set first
ApplyOption_KeepFirst(route, o) ==
    CASE o.opt = "tags" -> [route EXCEPT !.Tags = @ \o o.tags]
      [] o.opt = "summary" ->
            [route EXCEPT !.Summary = IF @ = "" THEN o.summary ELSE @]
      [] o.opt = "description" ->
            [route EXCEPT !.Description = IF @ = "" THEN o.description ELSE @]
      [] o.opt = "response" ->
            [route EXCEPT !.Responses = (o.code :> o.description) @@ @]
      [] o.opt = "parameter" ->
            [route EXCEPT !.Parameters = Append(@, o.parameter)]

\* routeOption(&newRoute)
ApplyOption(route, o) ==
    CASE o.opt = "tags" -> [route EXCEPT !.Tags = @ \o o.tags]
      [] o.opt = "summary" -> [route EXCEPT !.Summary = o.summary]
      [] o.opt = "description" -> [route EXCEPT !.Description = o.description]
      [] o.opt = "response" ->
            [route EXCEPT !.Responses = (o.code :> o.description) @@ @]
      [] o.opt = "parameter" ->
            [route EXCEPT !.Parameters = Append(@, o.parameter)]

\* for _, routeOption := range opts { routeOption(&newRoute) }
RECURSIVE ApplyOptions(_, _)
ApplyOptions(route, opts) ==
    IF opts = <<>> THEN route
    ELSE ApplyOptions(ApplyOption(route, Head(opts)), Tail(opts))

(***************************************************************************)
(* Schema synthesis (goapi.go, generateSchemaFromStruct / getFieldSchema)   *)
(* A Go value is its reflect.Kind, for a pointer whether it is nil and its *)
(* pointee, for a struct its fields.  A json tag is the sequence of its    *)
(* comma-separated parts, <<"">> for the empty tag.                        *)
(***************************************************************************)
GoValue(kind) == [kind |-> kind, isNil |-> FALSE, elem |-> <<>>, fields |-> <<>>]
GoStruct(fields) == [kind |-> "struct", isNil |-> FALSE, elem |-> <<>>, fields |-> fields]
GoPtr(v) == [kind |-> "ptr", isNil |-> FALSE, elem |-> v, fields |-> <<>>]
GoNilPtr == [kind |-> "ptr", isNil |-> TRUE, elem |-> <<>>, fields |-> <<>>]
GoField(name, json, example, v) ==
    [Name |-> name, json |-> json, example |-> example, value |-> v]

IntKinds  == {"int", "int8", "int16", "int32", "int64"}
\* A case list that lacks reflect.Uint64
UintKinds_NoUint64 == {"uint", "uint8", "uint16", "uint32"}

UintKinds == {"uint", "uint8", "uint16", "uint32", "uint64"}

RECURSIVE getFieldSchema(_, _)
getFieldSchema(fieldValue, field) ==
    LET tagged == IF field.example # "" THEN ("example" :> field.example)
                  ELSE EmptyMap
    IN
    CASE fieldValue.kind = "string" -> ("type" :> "string") @@ tagged
      [] fieldValue.kind \in IntKinds ->
            ("type" :> "integer") @@ ("format" :> "int64") @@ tagged
      [] fieldValue.kind \in UintKinds ->
            ("type" :> "integer") @@ ("format" :> "int64") @@ tagged
      [] fieldValue.kind = "float32" ->
            ("type" :> "number") @@ ("format" :> "float") @@ tagged
      [] fieldValue.kind = "float64" ->
            ("type" :> "number") @@ ("format" :> "double") @@ tagged
      [] fieldValue.kind = "bool" -> ("type" :> "boolean") @@ tagged
      [] fieldValue.kind \in {"slice", "array"} ->
            ("type" :> "array") @@ ("items" :> ("type" :> "string")) @@ tagged
      [] fieldValue.kind = "ptr" ->
            IF ~fieldValue.isNil THEN getFieldSchema(fieldValue.elem, field)
            ELSE ("type" :> "string") @@ tagged
      [] OTHER -> ("type" :> "string") @@ tagged

\* The name under which a field is documented
FieldName(field) ==
    IF field.json # <<"">> /\ field.json # <<"-">> /\ field.json[1] # ""
    THEN field.json[1] ELSE field.Name

\* A loop whose else branch appends nothing
FieldRequired_TaggedOnly(field) ==
    IF field.json # <<"">> /\ field.json # <<"-">>
    THEN ~\E i \in 2..Len(field.json) : field.json[i] = "omitempty"
    ELSE FALSE

\* Whether the loop appends the field to `required`
FieldRequired(field) ==
    IF field.json # <<"">> /\ field.json # <<"-">>
    THEN ~\E i \in 2..Len(field.json) : field.json[i] = "omitempty"
    ELSE TRUE

RECURSIVE StructProperties(_, _)
StructProperties(fields, n) ==
    IF n = 0 THEN EmptyMap
    ELSE (FieldName(fields[n]) :> getFieldSchema(fields[n].value, fields[n]))
         @@ StructProperties(fields, n - 1)

RECURSIVE StructRequired(_, _)
StructRequired(fields, n) ==
    IF n = 0 THEN <<>>
    ELSE IF FieldRequired(fields[n])
    THEN Append(StructRequired(fields, n - 1), FieldName(fields[n]))
    ELSE StructRequired(fields, n - 1)

\* A synthesis without the test `example != nil`
generateSchemaFromStruct_NoNilTest(example) ==
    LET base == ("type" :> "object") @@ ("properties" :> EmptyMap)
        v == IF example.kind = "ptr" /\ ~example.isNil THEN example.elem
             ELSE example
        withExample == ("example" :> example) @@ base
    IN IF v.kind = "struct"
       THEN LET required == StructRequired(v.fields, Len(v.fields))
                props == ("properties" :> StructProperties(v.fields, Len(v.fields)))
                         @@ withExample
            IN IF Len(required) > 0 THEN ("required" :> required) @@ props
               ELSE props
       ELSE withExample

generateSchemaFromStruct(example) ==
    LET base == ("type" :> "object") @@ ("properties" :> EmptyMap) IN
    IF example = NoSchema THEN base
    ELSE LET v == IF example.kind = "ptr" /\ ~example.isNil THEN example.elem
                  ELSE example
             withExample == ("example" :> example) @@ base
         IN IF v.kind = "struct"
            THEN LET required == StructRequired(v.fields, Len(v.fields))
                     props == ("properties" :> StructProperties(v.fields, Len(v.fields)))
                              @@ withExample
                 IN IF Len(required) > 0 THEN ("required" :> required) @@ props
                    ELSE props
            ELSE withExample

(***************************************************************************)
(* Document assembly (goapi.go)                                            *)
(***************************************************************************)
\* convertToOpenAPIPath: ":name" segments become "{name}"
RECURSIVE ConvertSegments(_)
ConvertSegments(segments) ==
    IF segments = <<>> THEN <<>>
    ELSE <<IF HasColonPrefix(Head(segments))
           THEN <<"{">> \o Tail(Head(segments)) \o <<"}">>
           ELSE Head(segments)>> \o ConvertSegments(Tail(segments))

convertToOpenAPIPath(path) == Join(ConvertSegments(Split(path)))

\* A switch that has the case "id" only
ExtractedParameter_IdOnly(paramName) ==
    IF paramName = <<"i", "d">>
    THEN [name |-> paramName, in |-> "path", required |-> TRUE,
          type |-> "integer", format |-> "int64",
          description |-> <<"ID del recurso">>]
    ELSE [name |-> paramName, in |-> "path", required |-> TRUE,
          type |-> "string",
          description |-> <<"Parametro ", paramName>>]

\* The parameter extractParameters builds for the segment ":paramName"; the
\* default description is the format string (written without its accent)
\* followed by the name
ExtractedParameter(paramName) ==
    IF paramName = <<"i", "d">>
    THEN [name |-> paramName, in |-> "path", required |-> TRUE,
          type |-> "integer", format |-> "int64",
          description |-> <<"ID del recurso">>]
    ELSE IF paramName \in {<<"u", "s", "e", "r", "I", "d">>,
                           <<"u", "s", "e", "r", "_", "i", "d">>}
    THEN [name |-> paramName, in |-> "path", required |-> TRUE,
          type |-> "integer", format |-> "int64",
          description |-> <<"ID del usuario">>]
    ELSE [name |-> paramName, in |-> "path", required |-> TRUE,
          type |-> "string",
          description |-> <<"Parametro ", paramName>>]

RECURSIVE ExtractSegments(_)
ExtractSegments(segments) ==
    IF segments = <<>> THEN <<>>
    ELSE (IF HasColonPrefix(Head(segments))
          THEN <<ExtractedParameter(Tail(Head(segments)))>> ELSE <<>>)
         \o ExtractSegments(Tail(segments))

\* An extraction that names each parameter by the whole segment, sigil
\* included
extractParameters_KeepSigil(path) ==
    LET ps == ExtractSegments(Split(path)) IN
    [k \in 1..Len(ps) |-> [ps[k] EXCEPT !.name = <<":">> \o @]]

extractParameters(path) == ExtractSegments(Split(path))

\* The map getRouteParameters builds for one configured parameter
DocumentedParameter(param) ==
    LET common == [name |-> param.Name, in |-> param.In,
                   required |-> param.Required, description |-> param.Description]
    IN IF param.In = "body" /\ param.Schema # NoSchema
       THEN ("schema" :> generateSchemaFromStruct(param.Schema)) @@ common
       ELSE IF param.Format # ""
       THEN ("type" :> param.Type) @@ ("format" :> param.Format) @@ common
       ELSE ("type" :> param.Type) @@ common

RECURSIVE DocumentedParameters(_)
DocumentedParameters(params) ==
    IF params = <<>> THEN <<>>
    ELSE <<DocumentedParameter(Head(params))>> \o DocumentedParameters(Tail(params))

\* A getRouteParameters that runs the path extraction for every route
getRouteParameters_AlwaysExtract(route) ==
    DocumentedParameters(route.Parameters) \o extractParameters(route.Path)

getRouteParameters(route) ==
    IF Len(route.Parameters) = 0 THEN extractParameters(route.Path)
    ELSE DocumentedParameters(route.Parameters)

\* An operation that copies the fields of the route as they are and lists
\* the responses the route declares
Operation_AsDeclared(route) ==
    [summary |-> route.Summary,
     description |-> route.Description,
     tags |-> route.Tags,
     parameters |-> getRouteParameters(route),
     responses |-> [code \in DOMAIN route.Responses |->
                       [description |-> route.Responses[code]]]]

\* The operation object of one route (lines 392-415)
Operation(route) ==
    [summary |-> IF route.Summary = "" THEN "API endpoint" ELSE route.Summary,
     description |-> IF route.Description = "" THEN "API endpoint description"
                     ELSE route.Description,
     tags |-> IF Len(route.Tags) = 0 THEN <<"default">> ELSE route.Tags,
     parameters |-> getRouteParameters(route),
     responses |-> ("200" :> [description |-> "Successful response",
                              schema |-> [type |-> "object"]])]

\* A loop that starts every route from a new path item
GetPathItem_AlwaysNew(paths, openAPIPath) == EmptyMap

\* pathItem, exists := paths[openAPIPath]; if !exists { make(...) }
GetPathItem(paths, openAPIPath) ==
    IF openAPIPath \in DOMAIN paths THEN paths[openAPIPath] ELSE EmptyMap

\* An assignment that keeps the operation already stored for the method
SetOperation_KeepFirst(pathItem, methodLower, operation) ==
    pathItem @@ (methodLower :> operation)

\* pathItem[methodLower] = operation
SetOperation(pathItem, methodLower, operation) ==
    (methodLower :> operation) @@ pathItem

\* The paths map after the loop has handled the first n routes
RECURSIVE AssemblePaths(_, _)
AssemblePaths(rs, n) ==
    IF n = 0 THEN EmptyMap
    ELSE LET paths == AssemblePaths(rs, n - 1)
             route == rs[n]
             openAPIPath == convertToOpenAPIPath(route.Path)
         IN IF IsDocPath(route.Path) THEN paths
            ELSE (openAPIPath :>
                    SetOperation(GetPathItem(paths, openAPIPath),
                                 ToLower(route.Method), Operation(route)))
                 @@ paths

\* getSwaggerJSON: json.MarshalIndent writes map keys in sorted order, so the
\* string is determined by the document; info, host, basePath and schemes come
\* from a.config, which no operation assigns.
getSwaggerJSON(rs) == [swagger |-> "2.0", paths |-> AssemblePaths(rs, Len(rs))]

(***************************************************************************)
(* Route registry operations (goapi.go)                                    *)
(***************************************************************************)
Methods == {"GET", "POST"}

PathA       == <<"/", "a">>
PathUsersId == <<"/", "u", "s", "e", "r", "s", "/", ":", "i", "d">>
SamplePaths == {PathA, PathUsersId, PathDocs}

NameId == <<"i", "d">>
NameQ  == <<"q">>

\* CreateUserRequest-like example: one required and one omitempty field
BodyExample ==
    GoStruct(<<GoField("Name", <<"name">>, "John Doe", GoValue("string")),
               GoField("Age", <<"age", "omitempty">>, "", GoValue("int"))>>)

\* The option lists AddRoute is called with
OptLists ==
    { <<>>,
      <<WithSummary("s1")>>,
      <<WithSummary("s2"), WithDescription("d2"), WithTags(<<"users">>)>>,
      <<WithPathParameter(NameId, "integer", <<"User ID">>)>>,
      <<WithQueryParameter(NameQ, "string", <<"Filter">>, FALSE),
        WithRequestBody(BodyExample, <<"User data">>)>> }

\* history: a route appended by a call of AddRoute on the GoAPI value itself
Direct == [via |-> "AddRoute", fn |-> "none", prefixes |-> <<>>, path |-> <<>>]

\* A registry that keeps one route for each method and path: a registration
\* of a pair already present takes the place of the earlier one
AddRoute_Upsert(method, path, opts) ==
    LET newRoute == ApplyOptions(NewRoute(method, path), opts)
        same == {n \in 1..Len(routes) :
                    routes[n].Method = method /\ routes[n].Path = path}
    IN
    /\ Len(routes) < MaxRoutes
    /\ routes' = IF same = {} THEN Append(routes, newRoute)
                 ELSE [n \in 1..Len(routes) |->
                          IF n \in same THEN newRoute ELSE routes[n]]
    /\ routeOrigin' = Append(routeOrigin, Direct)
    /\ UNCHANGED <<swaggerContent, ginRoutes, handed, swagRegistered, setupState,
                   routesAtSetup, lastBody, lastBodyRoutes, groups>>
    /\ UNCHANGED <<diVars, fnVars, rateVars>>

\* apiInstance.routes = append(apiInstance.routes, newRoute)
AddRoute(method, path, opts) ==
    /\ Len(routes) < MaxRoutes
    /\ routes' = Append(routes, ApplyOptions(NewRoute(method, path), opts))
    /\ routeOrigin' = Append(routeOrigin, Direct)
    /\ UNCHANGED <<swaggerContent, ginRoutes, handed, swagRegistered, setupState,
                   routesAtSetup, lastBody, lastBodyRoutes, groups>>
    /\ UNCHANGED <<diVars, fnVars, rateVars>>

\* The routes setupDocs hands to gin; writeSwaggerFile comes first and
\* router.Static registers GET and HEAD
DocRoutes ==
    { <<"GET", PathOpenAPI>>, <<"GET", PathRoot>>, <<"GET", PathDocs>>,
      <<"GET", PathRedoc>>, <<"GET", PathDocsStatic>>, <<"HEAD", PathDocsStatic>>,
      <<"GET", PathSwaggerAny>>, <<"GET", PathRedocIndex>> }

\* The loop of SetupRoutes over the first n routes: gin panics when a
\* (method, path) pair is registered twice, which ends the loop
RECURSIVE HandleRoutes(_, _, _)
HandleRoutes(reg, rs, n) ==
    IF n = 0 THEN [reg |-> reg, panicked |-> FALSE]
    ELSE LET before == HandleRoutes(reg, rs, n - 1)
             pair == <<rs[n].Method, rs[n].Path>>
         IN IF before.panicked THEN before
            ELSE IF pair \in before.reg THEN [reg |-> before.reg, panicked |-> TRUE]
            ELSE [reg |-> before.reg \cup {pair}, panicked |-> FALSE]

\* A setup whose registration of the specification can be repeated: every
\* call hands the documentation routes and the registered routes to gin
SetupRoutesCall_Repeatable(whenDone, whenPanicked) ==
    /\ LET handled == HandleRoutes(ginRoutes \cup DocRoutes, routes, Len(routes)) IN
       /\ swagRegistered' = TRUE
       /\ swaggerContent' = getSwaggerJSON(routes)
       /\ routesAtSetup' = routes
       /\ ginRoutes' = handled.reg
       /\ handed' = [docs |-> handed.docs + 1,
                     routes |-> handed.routes \o [n \in 1..Len(routes) |-> n]]
       /\ setupState' = IF handled.panicked \/ ginRoutes # {}
                        THEN whenPanicked ELSE whenDone
    /\ UNCHANGED <<routes, lastBody, lastBodyRoutes, groups, routeOrigin>>
    /\ UNCHANGED <<diVars, fnVars, rateVars>>

\* The body of SetupRoutes: generateSwaggerSpec (swag.Register panics when
\* the name is already registered), writeSwaggerFile, the documentation
\* routes, then the registered routes one by one until gin panics
SetupRoutesCall(whenDone, whenPanicked) ==
    /\ IF swagRegistered
       THEN /\ setupState' = whenPanicked
            /\ UNCHANGED <<swaggerContent, ginRoutes, handed, swagRegistered,
                           routesAtSetup>>
       ELSE LET handled == HandleRoutes(DocRoutes, routes, Len(routes))
                tried == {n \in 1..Len(routes) :
                             ~HandleRoutes(DocRoutes, routes, n - 1).panicked}
            IN
            /\ swagRegistered' = TRUE
            /\ swaggerContent' = getSwaggerJSON(routes)
            /\ routesAtSetup' = routes
            /\ ginRoutes' = handled.reg
            /\ handed' = [docs |-> handed.docs + 1,
                          routes |-> handed.routes
                                         \o [n \in 1..Cardinality(tried) |-> n]]
            /\ setupState' = IF handled.panicked THEN whenPanicked ELSE whenDone
    /\ UNCHANGED <<routes, lastBody, lastBodyRoutes, groups, routeOrigin>>
    /\ UNCHANGED <<diVars, fnVars, rateVars>>

\* GoAPI.SetupRoutes called by the application
SetupRoutes == SetupRoutesCall("done", "panicked")

\* GoAPI.Run: a.SetupRoutes(), then a.router.Run(addr...) serves
Run == SetupRoutesCall("serving", "run_panicked")

\* A handler that assembles the document on every request
OpenAPIHandlerBody_Recomputed == getSwaggerJSON(routes)

\* The closure of writeSwaggerFile: c.String(http.StatusOK, swaggerContent)
OpenAPIHandlerBody == swaggerContent

\* A request for GET /openapi.json reaches the handler gin holds
ServeOpenAPI ==
    /\ <<"GET", PathOpenAPI>> \in ginRoutes
    /\ lastBody' = OpenAPIHandlerBody
    /\ lastBodyRoutes' = Len(routes)
    /\ UNCHANGED <<routes, swaggerContent, ginRoutes, handed, swagRegistered,
                   setupState,
                   routesAtSetup, groups, routeOrigin>>
    /\ UNCHANGED <<diVars, fnVars, rateVars>>

NextDoc ==
    \/ \E m \in Methods, path \in SamplePaths, opts \in OptLists :
           AddRoute(m, path, opts)
    \/ SetupRoutes
    \/ ServeOpenAPI

SpecDoc == Init /\ [][NextDoc]_vars

\* Registrations that differ in their path only: every documentation path of
\* setupDocs, plain paths, and one-parameter paths over a set of names
ParamNames ==
    { NameId, <<"u", "s", "e", "r", "I", "d">>,
      <<"u", "s", "e", "r", "_", "i", "d">>, <<"I", "D">>, <<"I", "d">>,
      <<"i", "d", "s">>, <<"u", "s", "e", "r", "i", "d">>,
      <<"n", "a", "m", "e">> }
PathFor(paramName) == <<"/", "u", "/", ":">> \o paramName
PathInputs ==
    { PathRoot, PathDocs, PathRedoc, PathSwaggerAny, PathRedocIndex,
      PathOpenAPI, PathDocsStatic, PathA, PathUsersId }
        \cup {PathFor(paramName) : paramName \in ParamNames}

SpecPaths ==
    Init /\ [][\/ \E m \in Methods, path \in PathInputs : AddRoute(m, path, <<>>)
               \/ SetupRoutes
               \/ ServeOpenAPI]_vars

\* Registrations that differ in their parameter options: each of the five
\* options that add a parameter, with every location WithParameter takes and
\* with and without an example for the body
ParameterOptLists ==
    { <<WithPathParameter(NameId, "integer", <<"User ID">>)>>,
      <<WithQueryParameter(NameQ, "string", <<"Filter">>, FALSE)>>,
      <<WithParameter(NameQ, "header", "string", <<"Token">>, TRUE)>>,
      <<WithParameter(NameQ, "body", "object", <<"Payload">>, TRUE)>>,
      <<WithRequestBody(BodyExample, <<"User data">>)>>,
      <<WithRequestBody(NoSchema, <<"No example">>)>>,
      <<WithJSONSchema(BodyExample, <<"JSON data">>)>>,
      <<WithQueryParameter(NameQ, "string", <<"Filter">>, TRUE),
        WithJSONSchema(GoPtr(BodyExample), <<"JSON data">>)>> }

SpecOptions ==
    Init /\ [][\/ \E m \in Methods, opts \in ParameterOptLists :
                      AddRoute(m, PathA, opts)
               \/ SetupRoutes
               \/ ServeOpenAPI]_vars

(***************************************************************************)
(* Route groups (router.go)                                                *)
(***************************************************************************)
\* A concatenation that keeps one separator where two meet
GroupPath_Joined(pathPrefix, path) ==
    IF /\ Len(pathPrefix) > 0 /\ pathPrefix[Len(pathPrefix)] = "/"
       /\ Len(path) > 0 /\ path[1] = "/"
    THEN pathPrefix \o Tail(path)
    ELSE pathPrefix \o path

\* routerGroup.pathPrefix+path
GroupPath(pathPrefix, path) == pathPrefix \o path

\* The method each of the five registration functions passes to AddRoute
GroupMethod(fn) ==
    CASE fn = "GET" -> "GET"
      [] fn = "POST" -> "POST"
      [] fn = "PUT" -> "PUT"
      [] fn = "DELETE" -> "DELETE"
      [] fn = "PATCH" -> "PATCH"

\* NewRouterGroup; prefixes is the history of the Group arguments, outermost
\* first
NewRouterGroup(pathPrefix, prefixes) ==
    [pathPrefix |-> pathPrefix, prefixes |-> prefixes]

\* GoAPI.Group
Group(path) ==
    /\ Len(groups) < MaxGroups
    /\ groups' = Append(groups, NewRouterGroup(path, <<path>>))
    /\ UNCHANGED <<routes, swaggerContent, ginRoutes, handed, swagRegistered,
                   setupState,
                   routesAtSetup, lastBody, lastBodyRoutes, routeOrigin>>
    /\ UNCHANGED <<diVars, fnVars, rateVars>>

\* RouterGroup.Group
SubGroup(g, path) ==
    /\ Len(groups) < MaxGroups
    /\ groups' = Append(groups,
                        NewRouterGroup(GroupPath(groups[g].pathPrefix, path),
                                       Append(groups[g].prefixes, path)))
    /\ UNCHANGED <<routes, swaggerContent, ginRoutes, handed, swagRegistered,
                   setupState,
                   routesAtSetup, lastBody, lastBodyRoutes, routeOrigin>>
    /\ UNCHANGED <<diVars, fnVars, rateVars>>

\* RouterGroup.GET, POST, PUT, DELETE and PATCH: one call of AddRoute on the
\* apiProvider
GroupRoute(g, fn, path) ==
    /\ Len(routes) < MaxRoutes
    /\ routes' = Append(routes,
                        ApplyOptions(NewRoute(GroupMethod(fn),
                                              GroupPath(groups[g].pathPrefix, path)),
                                     <<>>))
    /\ routeOrigin' = Append(routeOrigin,
                             [via |-> "RouterGroup", fn |-> fn,
                              prefixes |-> groups[g].prefixes, path |-> path])
    /\ UNCHANGED <<swaggerContent, ginRoutes, handed, swagRegistered, setupState,
                   routesAtSetup, lastBody, lastBodyRoutes, groups>>
    /\ UNCHANGED <<diVars, fnVars, rateVars>>

\* Prefixes and paths with and without separators at their ends
GroupPrefixes == {<<>>, <<"/", "a">>, <<"/", "a", "/">>}

SpecGroups ==
    Init /\ [][\/ \E path \in GroupPrefixes : Group(path)
               \/ \E g \in 1..Len(groups), path \in GroupPrefixes : SubGroup(g, path)
               \/ \E g \in 1..Len(groups), path \in {<<>>, <<"/", "b">>, <<"b">>},
                      fn \in {"GET", "POST", "PUT", "DELETE", "PATCH"} :
                      GroupRoute(g, fn, path)
               \/ \E m \in Methods : AddRoute(m, PathA, <<>>)]_vars

\* The documented startup order: registrations, SetupRoutes, and Run once
\* SetupRoutes has returned
SpecStartup ==
    Init /\ [][\/ \E m \in Methods, path \in SamplePaths : AddRoute(m, path, <<>>)
               \/ SetupRoutes
               \/ setupState = "done" /\ Run]_vars

\* Direct and group registrations together with SetupRoutes and the requests
\* for the document
SpecRegistry ==
    Init /\ [][\/ Group(<<"/", "a">>)
               \/ \E g \in 1..Len(groups) : SubGroup(g, <<"/", "a">>)
               \/ \E g \in 1..Len(groups), fn \in {"GET", "POST"} :
                      GroupRoute(g, fn, <<"/", "b">>)
               \/ \E m \in Methods, opts \in {<<>>, <<WithSummary("s1")>>} :
                      AddRoute(m, PathA, opts)
               \/ SetupRoutes
               \/ ServeOpenAPI]_vars

(***************************************************************************)
(* Calls of the pure functions                                             *)
(***************************************************************************)
\* Every string of at most n characters over an alphabet
StringsOver(chars, n) == UNION {[1..k -> chars] : k \in 0..n}

\* A function is about to be called with one of the arguments
InitCall(arguments) ==
    /\ InitDI
    /\ InitDoc
    /\ InitRateLimit({1})
    /\ fnArg \in arguments
    /\ fnRes = NoCall

CallExtractParameters ==
    /\ fnArg.fn = "extractParameters"
    /\ fnRes.fn = "none"
    /\ fnRes' = [fn |-> "extractParameters", out |-> extractParameters(fnArg.path)]
    /\ UNCHANGED <<fnArg, diVars, docVars, rateVars>>

SpecExtract ==
    /\ InitCall({[fn |-> "extractParameters", path |-> path] :
                    path \in StringsOver({"/", ":", "i", "d"}, MaxPathLen)})
    /\ [][CallExtractParameters]_vars

\* Flat records: the json tag of each field is one of the shapes below (the
\* tag as strings.Split(jsonTag, ",") sees it, <<"">> when there is none),
\* its kind is primitive and its declared name is given by its position
FlatFields(i) ==
    {GoField(<<"A", "B", "C", "D">>[i], json, "", GoValue(kind)) :
         json \in { <<"">>, <<"-">>, <<"n">>, <<"n", "omitempty">>,
                    <<"", "omitempty">>, <<"-", "">>, <<"n", "string">>,
                    <<"n", "string", "omitempty">>, <<"omitempty">> },
         kind \in {"string", "int"}}
\* The field lists of length k
RECURSIVE FlatFieldLists(_)
FlatFieldLists(k) ==
    IF k = 0 THEN {<<>>}
    ELSE {Append(fs, f) : fs \in FlatFieldLists(k - 1), f \in FlatFields(k)}

FlatRecords ==
    LET fieldLists == UNION {FlatFieldLists(k) : k \in 0..MaxFields}
    IN {GoStruct(fs) : fs \in fieldLists} \cup {GoPtr(GoStruct(fs)) : fs \in fieldLists}

CallGenerateSchema ==
    /\ fnArg.fn = "generateSchemaFromStruct"
    /\ fnRes.fn = "none"
    /\ fnRes' = [fn |-> "generateSchemaFromStruct",
                 out |-> generateSchemaFromStruct(fnArg.example)]
    /\ UNCHANGED <<fnArg, diVars, docVars, rateVars>>

SpecRequired ==
    /\ InitCall({[fn |-> "generateSchemaFromStruct", example |-> example] :
                    example \in FlatRecords})
    /\ [][CallGenerateSchema]_vars

\* Examples of every shape: the nil interface, scalars, collections, structs,
\* and pointers (nil or not) to them and to such pointers
PointersTo(values) == {GoPtr(v) : v \in values}
Examples ==
    LET plain == {GoValue(kind) : kind \in {"string", "int", "bool", "float64",
                                              "slice", "array", "map"}}
                     \cup {r \in FlatRecords : r.kind = "struct"}
        pointers == PointersTo(plain) \cup {GoNilPtr}
    IN {NoSchema} \cup plain \cup pointers \cup PointersTo(pointers)

SpecSynthesize ==
    /\ InitCall({[fn |-> "generateSchemaFromStruct", example |-> example] :
                    example \in Examples})
    /\ [][CallGenerateSchema]_vars

\* Field values of every reflect.Kind, behind no, one or two pointers, in
\* fields with and without an example tag
FieldValues ==
    LET plain == {GoValue(kind) :
                      kind \in { "bool", "int", "int8", "int16", "int32", "int64",
                                 "uint", "uint8", "uint16", "uint32", "uint64",
                                 "uintptr", "float32", "float64", "complex64",
                                 "complex128", "array", "chan", "func",
                                 "interface", "map", "slice", "string", "struct",
                                 "unsafe.Pointer" }}
        pointers == PointersTo(plain) \cup {GoNilPtr}
    IN plain \cup pointers \cup PointersTo(pointers)

CallGetFieldSchema ==
    /\ fnArg.fn = "getFieldSchema"
    /\ fnRes.fn = "none"
    /\ fnRes' = [fn |-> "getFieldSchema",
                 out |-> getFieldSchema(fnArg.fieldValue, fnArg.field)]
    /\ UNCHANGED <<fnArg, diVars, docVars, rateVars>>

SpecFieldSchema ==
    /\ InitCall({[fn |-> "getFieldSchema", fieldValue |-> v,
                  field |-> GoField("A", <<"a">>, example, v)] :
                    v \in FieldValues, example \in {"", "x"}})
    /\ [][CallGetFieldSchema]_vars

(***************************************************************************)
(* Validation errors (responses.go)                                        *)
(***************************************************************************)
\* The decimal digits of a natural number
RECURSIVE FormatNat(_)
FormatNat(n) ==
    LET digit == <<"0", "1", "2", "3", "4", "5", "6", "7", "8", "9">>[(n % 10) + 1]
    IN IF n < 10 THEN <<digit>> ELSE Append(FormatNat(n \div 10), digit)

\* fmt.Sprintf("%v", value) for the values a failing field holds
Sprint(value) ==
    CASE value.t = "string" -> value.v
      [] value.t = "int" -> IF value.v < 0 THEN <<"-">> \o FormatNat(0 - value.v)
                            ELSE FormatNat(value.v)
      [] value.t = "bool" -> IF value.v THEN <<"t", "r", "u", "e">>
                             ELSE <<"f", "a", "l", "s", "e">>
      [] value.t = "nil" -> <<"<", "n", "i", "l", ">">>

\* A switch whose case "lte" repeats the line of "gte"
ValidationMessage_LteAsGte(tag, field, param) ==
    CASE tag = "required" -> <<"El campo '", field, "' es requerido">>
      [] tag = "min" -> <<"El campo '", field, "' debe tener un valor minimo de ", param>>
      [] tag = "max" -> <<"El campo '", field, "' debe tener un valor maximo de ", param>>
      [] tag = "email" -> <<"El campo '", field, "' debe ser un email valido">>
      [] tag = "url" -> <<"El campo '", field, "' debe ser una URL valida">>
      [] tag = "len" -> <<"El campo '", field, "' debe tener exactamente ", param,
                          " caracteres">>
      [] tag \in {"gte", "lte"} ->
             <<"El campo '", field, "' debe ser mayor o igual a ", param>>
      [] OTHER -> <<"El campo '", field, "' no cumple con la validacion '", tag, "'">>

\* The message of one failure: the format string of its case (written
\* without accents), cut at its verbs, with the arguments in their places
ValidationMessage(tag, field, param) ==
    CASE tag = "required" -> <<"El campo '", field, "' es requerido">>
      [] tag = "min" -> <<"El campo '", field, "' debe tener un valor minimo de ", param>>
      [] tag = "max" -> <<"El campo '", field, "' debe tener un valor maximo de ", param>>
      [] tag = "email" -> <<"El campo '", field, "' debe ser un email valido">>
      [] tag = "url" -> <<"El campo '", field, "' debe ser una URL valida">>
      [] tag = "len" -> <<"El campo '", field, "' debe tener exactamente ", param,
                          " caracteres">>
      [] tag = "gte" -> <<"El campo '", field, "' debe ser mayor o igual a ", param>>
      [] tag = "lte" -> <<"El campo '", field, "' debe ser menor o igual a ", param>>
      [] OTHER -> <<"El campo '", field, "' no cumple con la validacion '", tag, "'">>

\* The loop: one ValidationError for each validator.FieldError
RECURSIVE FormatFieldErrors(_)
FormatFieldErrors(fieldErrors) ==
    IF fieldErrors = <<>> THEN <<>>
    ELSE LET fieldError == Head(fieldErrors) IN
         <<[Field |-> fieldError.Field, Tag |-> fieldError.Tag,
            Value |-> Sprint(fieldError.Value),
            Message |-> ValidationMessage(fieldError.Tag, fieldError.Field,
                                          fieldError.Param)]>>
             \o FormatFieldErrors(Tail(fieldErrors))

\* err.(validator.ValidationErrors) succeeds for that dynamic type only; the
\* nil slice returned otherwise is the empty sequence
FormatValidationErrors(err) ==
    IF err.kind = "validator.ValidationErrors" THEN FormatFieldErrors(err.errs)
    ELSE <<>>

\* Failures of the validator: the eight tags with a case, two without, on two
\* fields, with two constraint parameters and two values
FieldErrors ==
    [Field : {"email", "age"},
     Tag : {"required", "min", "max", "email", "url", "len", "gte", "lte",
            "alpha", "oneof"},
     Param : {"3", "8"},
     Value : {[t |-> "string", v |-> <<"a", "b">>], [t |-> "int", v |-> 17]}]
ErrorInputs ==
    {[kind |-> "nil", errs |-> <<>>], [kind |-> "errors.errorString", errs |-> <<>>]}
        \cup {[kind |-> "validator.ValidationErrors", errs |-> errs] :
                  errs \in UNION {[1..k -> FieldErrors] : k \in 0..MaxFailures}}

CallFormatValidationErrors ==
    /\ fnArg.fn = "FormatValidationErrors"
    /\ fnRes.fn = "none"
    /\ fnRes' = [fn |-> "FormatValidationErrors",
                 out |-> FormatValidationErrors(fnArg.err)]
    /\ UNCHANGED <<fnArg, diVars, docVars, rateVars>>

SpecFormat ==
    /\ InitCall({[fn |-> "FormatValidationErrors", err |-> err] :
                    err \in ErrorInputs})
    /\ [][CallFormatValidationErrors]_vars

(***************************************************************************)
(* Query parameters (responses.go)                                         *)
(***************************************************************************)
DigitValue(c) ==
    CASE c = "0" -> 0 [] c = "1" -> 1 [] c = "2" -> 2 [] c = "3" -> 3 [] c = "4" -> 4
      [] c = "5" -> 5 [] c = "6" -> 6 [] c = "7" -> 7 [] c = "8" -> 8 [] c = "9" -> 9

\* The number a string of digits denotes
RECURSIVE NatValue(_)
NatValue(ds) ==
    IF ds = <<>> THEN 0
    ELSE 10 * NatValue(SubSeq(ds, 1, Len(ds) - 1)) + DigitValue(ds[Len(ds)])

AllDigits(ds) ==
    \A i \in 1..Len(ds) :
        ds[i] \in {"0", "1", "2", "3", "4", "5", "6", "7", "8", "9"}

\* A parsed value or the error of strconv
ParseOk(t, v) == [ok |-> TRUE, val |-> [t |-> t, v |-> v]]
ParseErr == [ok |-> FALSE, val |-> [t |-> "nil", v |-> 0]]

\* strconv.ParseInt(value, 10, 64) and strconv.Atoi on strings short enough
\* for the range: an optional sign and one digit at least
ParseInt(value, t) ==
    LET signed == Len(value) > 0 /\ value[1] \in {"+", "-"}
        ds == IF signed THEN Tail(value) ELSE value
    IN IF Len(ds) = 0 \/ ~AllDigits(ds) THEN ParseErr
       ELSE IF signed /\ value[1] = "-" THEN ParseOk(t, 0 - NatValue(ds))
       ELSE ParseOk(t, NatValue(ds))

\* 10 to the power n
RECURSIVE Pow10(_)
Pow10(n) == IF n = 0 THEN 1 ELSE 10 * Pow10(n - 1)

\* strconv.ParseFloat(value, 64) on decimal literals without exponent: an
\* optional sign, digits with at most one point and one digit at least; the
\* value is the fraction <<numerator, denominator>>
ParseFloat(value) ==
    LET signed == Len(value) > 0 /\ value[1] \in {"+", "-"}
        body == IF signed THEN Tail(value) ELSE value
        points == {i \in 1..Len(body) : body[i] = "."}
        ds == SelectSeq(body, LAMBDA c : c # ".")
        decimals == IF points = {} THEN 0
                    ELSE Len(body) - (CHOOSE i \in points : TRUE)
        sign == IF signed /\ value[1] = "-" THEN 0 - 1 ELSE 1
    IN IF Cardinality(points) > 1 \/ Len(ds) = 0 \/ ~AllDigits(ds) THEN ParseErr
       ELSE ParseOk("float64", <<sign * NatValue(ds), Pow10(decimals)>>)

\* strconv.ParseBool
ParseBool(value) ==
    IF value \in { <<"1">>, <<"t">>, <<"T">>, <<"T", "R", "U", "E">>,
                   <<"t", "r", "u", "e">>, <<"T", "r", "u", "e">> }
    THEN ParseOk("bool", TRUE)
    ELSE IF value \in { <<"0">>, <<"f">>, <<"F">>, <<"F", "A", "L", "S", "E">>,
                        <<"f", "a", "l", "s", "e">>, <<"F", "a", "l", "s", "e">> }
    THEN ParseOk("bool", FALSE)
    ELSE ParseErr

parseValue(value, valueType) ==
    CASE valueType = "string" -> ParseOk("string", value)
      [] valueType = "int" -> ParseInt(value, "int")
      [] valueType = "int64" -> ParseInt(value, "int64")
      [] valueType = "float64" -> ParseFloat(value)
      [] valueType = "bool" -> ParseBool(value)
      [] OTHER -> ParseOk("string", value)

NoDefault == [t |-> "nil", v |-> 0]

\* A condition without the test values[0] == ""
NotProvided_NoEmptyTest(queryValues, name) ==
    \/ name \notin DOMAIN queryValues
    \/ Len(queryValues[name]) = 0

\* !exists || len(values) == 0 || values[0] == ""
NotProvided(queryValues, name) ==
    \/ name \notin DOMAIN queryValues
    \/ Len(queryValues[name]) = 0
    \/ queryValues[name][1] = <<>>

\* The loop of ParseQueryParams over the first n declared parameters
RECURSIVE ParseLoop(_, _, _)
ParseLoop(queryValues, params, n) ==
    IF n = 0 THEN [result |-> EmptyMap, validationErrors |-> <<>>]
    ELSE LET before == ParseLoop(queryValues, params, n - 1)
             param == params[n]
         IN IF param.Required /\ NotProvided(queryValues, param.Name)
            THEN [before EXCEPT !.validationErrors =
                     Append(@, [Field |-> param.Name, Tag |-> "required",
                                Value |-> <<>>,
                                Message |-> <<"El parametro de consulta '",
                                              param.Name, "' es requerido">>])]
            ELSE IF NotProvided(queryValues, param.Name)
            THEN IF param.DefaultValue # NoDefault
                 THEN [before EXCEPT !.result =
                          (param.Name :> param.DefaultValue) @@ @]
                 ELSE before
            ELSE LET value == queryValues[param.Name][1]
                     parsed == parseValue(value, param.Type)
                 IN IF ~parsed.ok
                    THEN [before EXCEPT !.validationErrors =
                             Append(@, [Field |-> param.Name, Tag |-> "type",
                                        Value |-> value,
                                        Message |-> <<"El parametro '", param.Name,
                                                      "' debe ser de tipo ",
                                                      param.Type>>])]
                    ELSE [before EXCEPT !.result = (param.Name :> parsed.val) @@ @]

\* The pair ParseQueryParams returns: a nil map with the errors, or the map
\* with a nil error
ParseQueryParams(queryValues, params) ==
    LET after == ParseLoop(queryValues, params, Len(params)) IN
    IF Len(after.validationErrors) > 0
    THEN [result |-> [isNil |-> TRUE, m |-> EmptyMap],
          err |-> [isNil |-> FALSE, errs |-> after.validationErrors]]
    ELSE [result |-> [isNil |-> FALSE, m |-> after.result],
          err |-> [isNil |-> TRUE, errs |-> <<>>]]

\* Declarations: the i-th parameter has the i-th name, any of the five types or
\* an unrecognized one, and is required, optional, or optional with a default
QueryNames == <<"p", "q", "r", "s">>
DefaultInput == [t |-> "int", v |-> 10]
QueryParamsAt(i) ==
    {[Name |-> QueryNames[i], Type |-> type, Required |-> mode = "required",
      DefaultValue |-> IF mode = "default" THEN DefaultInput ELSE NoDefault] :
         type \in {"string", "int", "int64", "float64", "bool", "uuid"},
         mode \in {"required", "optional", "default"}}

\* What the query string holds for one key; "none" when the key is absent
KeyInputs ==
    { "none", <<>>, <<<<>>>>, <<<<"1">>>>, <<<<"1", ".", "5">>>>,
      <<<<"x">>, <<"1">>>> }

\* The query of a request: the chosen values for the declared names and the
\* undeclared key z
QueryOf(keys) ==
    [name \in {QueryNames[i] : i \in {j \in 1..Len(keys) : keys[j] # "none"}}
              \cup {"z"} |->
        IF name = "z" THEN <<<<"1">>>>
        ELSE keys[CHOOSE i \in 1..Len(keys) : QueryNames[i] = name]]

\* The declaration lists of length k
RECURSIVE QueryParamLists(_)
QueryParamLists(k) ==
    IF k = 0 THEN {<<>>}
    ELSE {Append(params, param) :
              params \in QueryParamLists(k - 1), param \in QueryParamsAt(k)}

\* A call with any declaration list and any query for its names
InitParse ==
    /\ InitDI
    /\ InitDoc
    /\ InitRateLimit({1})
    /\ \E k \in 0..MaxParams :
           \E keys \in [1..k -> KeyInputs], params \in QueryParamLists(k) :
               fnArg = [fn |-> "ParseQueryParams", queryValues |-> QueryOf(keys),
                        params |-> params]
    /\ fnRes = NoCall

CallParseQueryParams ==
    /\ fnArg.fn = "ParseQueryParams"
    /\ fnRes.fn = "none"
    /\ fnRes' = [fn |-> "ParseQueryParams",
                 out |-> ParseQueryParams(fnArg.queryValues, fnArg.params)]
    /\ UNCHANGED <<fnArg, diVars, docVars, rateVars>>

SpecParse == InitParse /\ [][CallParseQueryParams]_vars

(***************************************************************************)
(* The rate limiter (goapi/middleware/middleware.go, RateLimit)            *)
(* gin runs the handler of every request on the goroutine of its           *)
(* connection; the closure shares requestCounts and lastReset between the  *)
(* goroutines without a lock, so the statements interleave.                *)
(***************************************************************************)
\* clientIP := c.ClientIP() and the reset of the counts when the minute is over
RateLimitEnter(t, ip) ==
    /\ request[t].pc = "idle"
    /\ requestsLeft > 0
    /\ requestsLeft' = requestsLeft - 1
    /\ request' = [request EXCEPT ![t] =
                       [pc |-> "read", clientIP |-> ip, currentCount |-> 0,
                        status |-> "none"]]
    /\ IF resetDue
       THEN /\ requestCounts' = EmptyMap
            /\ resetDue' = FALSE
            /\ passed' = [i \in ClientIPs |-> 0]
       ELSE UNCHANGED <<requestCounts, resetDue, passed>>
    /\ UNCHANGED <<requestsPerMinute, diVars, docVars, fnVars>>

\* currentCount := requestCounts[clientIP]; a missing key reads as 0
RateLimitRead(t) ==
    /\ request[t].pc = "read"
    /\ request' = [request EXCEPT ![t].pc = "check",
                                  ![t].currentCount =
                                      IF request[t].clientIP \in DOMAIN requestCounts
                                      THEN requestCounts[request[t].clientIP]
                                      ELSE 0]
    /\ UNCHANGED <<requestsPerMinute, requestCounts, resetDue, passed, requestsLeft,
                   diVars, docVars, fnVars>>

\* if currentCount >= config.RequestsPerMinute: 429 and c.Abort(); otherwise
\* requestCounts[clientIP] = currentCount + 1 and c.Next()
RateLimitCheck(t) ==
    /\ request[t].pc = "check"
    /\ IF request[t].currentCount >= requestsPerMinute
       THEN /\ request' = [request EXCEPT ![t].pc = "idle", ![t].status = "429"]
            /\ UNCHANGED <<requestCounts, passed>>
       ELSE /\ request' = [request EXCEPT ![t].pc = "idle", ![t].status = "next"]
            /\ requestCounts' =
                   (request[t].clientIP :> (request[t].currentCount + 1))
                       @@ requestCounts
            /\ passed' = [passed EXCEPT ![request[t].clientIP] = @ + 1]
    /\ UNCHANGED <<requestsPerMinute, resetDue, requestsLeft,
                   diVars, docVars, fnVars>>

\* The runtime stops the process when it finds two goroutines in the map at
\* once and one of them writing ("concurrent map writes")
RateLimitFault ==
    /\ \E t, u \in Threads :
           /\ t # u
           /\ request[t].pc = "check"
           /\ request[t].currentCount < requestsPerMinute
           /\ request[u].pc \in {"read", "check"}
    /\ request' = [t \in Threads |-> [request[t] EXCEPT !.pc = "fatal"]]
    /\ UNCHANGED <<requestsPerMinute, requestCounts, resetDue, passed, requestsLeft,
                   diVars, docVars, fnVars>>

\* A minute has gone by since lastReset
MinutePasses ==
    /\ ~resetDue
    /\ resetDue' = TRUE
    /\ UNCHANGED <<requestsPerMinute, requestCounts, request, passed, requestsLeft,
                   diVars, docVars, fnVars>>

\* The limiter is installed with a limit between 1 and MaxLimit
InitLimiter == InitDI /\ InitDoc /\ InitFn /\ InitRateLimit(1..MaxLimit)

SpecRateLimit ==
    /\ InitLimiter
    /\ [][\/ \E t \in Threads, ip \in ClientIPs : RateLimitEnter(t, ip)
          \/ \E t \in Threads : RateLimitRead(t) \/ RateLimitCheck(t)
          \/ RateLimitFault
          \/ MinutePasses]_vars

(***************************************************************************)
(* AddRoute called with every list of at most MaxOptions options           *)
(***************************************************************************)
\* One list of options is chosen and GET /users/:id is registered with it,
\* then the routes are set up
SpecOrder ==
    /\ InitCall({[fn |-> "AddRoute", opts |-> opts] :
                    opts \in StringsOver(
                        {WithSummary("s1"), WithSummary("s2"),
                         WithDescription("d1"), WithDescription("d2"),
                         WithTags(<<"a">>), WithTags(<<"b", "a">>),
                         WithPathParameter(NameId, "integer", <<"User ID">>),
                         WithQueryParameter(NameQ, "string", <<"Filter">>, FALSE),
                         WithResponse(404, <<"Not found">>)},
                        MaxOptions)})
    /\ [][\/ fnArg.fn = "AddRoute" /\ AddRoute("GET", PathUsersId, fnArg.opts)
          \/ SetupRoutes]_vars

(***************************************************************************)
(* Dependency container: properties                                        *)
(***************************************************************************)
\* Goroutine t is inside the memoizing closure registered for key k
InClosure(t, k) ==
    /\ pc[t] \in {"S_rlock", "S_lock", "S_wait"}
    /\ prov[t].key = k

\* Goroutine t has returned from a Resolve that delivered the instance cached
\* for key k
ResolvedCached(t, k) ==
    /\ pc[t] = "idle"
    /\ op[t].kind = "resolve"
    /\ result[t].status = "ok"
    /\ instances[k] # NoInst
    /\ target[t] = instances[k]

\* C1: when two Resolve calls for the same singleton key run concurrently
\* before any instance is cached, both complete with the same instance (each
\* invocation of the provider builds a new instance, so one and the same
\* instance in both targets means one invocation served both calls).
C1_Racing(k) ==
    /\ \A t \in Threads : InClosure(t, k)
    /\ \A t, u \in Threads : prov[t] = prov[u]
    /\ \A t \in Threads : ~ProviderFails(prov[t].pid)
    /\ \A t \in Threads : ProviderType(prov[t].pid) = k
    /\ instances[k] = NoInst

C1_ConcurrentFirstResolve ==
    \A k \in Keys : \A t \in Threads : C1_Racing(k) ~> ResolvedCached(t, k)

\* C2: the provider of a singleton is invoked at most once and its result is
\* cached for all subsequent resolutions: a resolution of a singleton key whose
\* provider succeeds leads to an instance cached for the key.
C2_Resolving(k) ==
    \E t \in Threads : InClosure(t, k) /\ ~ProviderFails(prov[t].pid)

C3_FailingSingleton(t, k) ==
    InClosure(t, k) /\ ProviderFails(prov[t].pid)

C3_ErrorReturned(t, k) ==
    /\ pc[t] = "idle"
    /\ result[t].status = "err_wrapped"
    /\ result[t].wraps.kind = "provider"
    /\ instances[k] = NoInst

C4_NoProviderCase(t) ==
    /\ pc[t] = "R_lookup"
    /\ ~IsPtr(op[t].arg) \/ providers[Elem(op[t].arg)] = NoProvider

C4_ResolveFailsCleanly ==
    [][\A t \in Threads :
         (C4_NoProviderCase(t) /\ pc'[t] # pc[t]) =>
            /\ pc'[t] = "idle"
            /\ result'[t].status \in {"err_notptr", "err_noprovider"}
            /\ calls' = calls
            /\ target'[t] = target[t]
            /\ providers' = providers
            /\ instances' = instances]_vars

\* C5: after a registration whose witness is a nil pointer of type *T, a
\* Resolve(c, &v) with v of type *T returns no error and leaves v equal to an
\* instance.
C5_DocumentedUsage(t) ==
    /\ pc[t] = "idle"
    /\ op[t].kind = "resolve"
    /\ op[t].arg = "**A"
    /\ "*A" \in op[t].seen

C5_WitnessKeyAgrees ==
    \A t \in Threads :
        C5_DocumentedUsage(t) => (result[t].status = "ok" /\ target[t] # NoInst)

\* C6: when the looked-up provider returns an error, Resolve returns an error
\* wrapping it, does not write the target and leaves the providers map
\* unchanged.
C6_ProviderErrorWrapped ==
    [][\A t \in Threads :
         (pc[t] = "R_ret" /\ ret[t].err # NoErr /\ pc'[t] # pc[t]) =>
            /\ pc'[t] = "idle"
            /\ result'[t].status = "err_wrapped"
            /\ result'[t].wraps = ret[t].err
            /\ target'[t] = target[t]
            /\ providers' = providers]_vars

C6_Witness ==
    \E t \in Threads :
        /\ pc[t] = "idle"
        /\ op[t].kind = "resolve"
        /\ ret[t].err # NoErr
        /\ result[t] = WrapProviderError(ret[t].err)
        /\ target[t] = NoInst

\* C25: every Resolve for a key registered with RegisterSingleton eventually
\* returns, with the instance or with an error, whatever other calls run
\* concurrently: no call blocks forever on the lock of the container.
C25_SingletonResolveReturns ==
    \A t \in Threads :
        (pc[t] \in {"S_rlock", "S_lock", "S_wait"}) ~> (pc[t] = "idle")

\* C26: Resolve holds the reader lock only while it looks up the provider:
\* when the provider is invoked the calling Resolve holds no lock of the
\* container.
C26_ProviderInvokedUnlocked ==
    \A t \in Threads :
        pc[t] \in {"P_call", "S_rlock", "S_lock", "S_wait"} => readers[t] = 0

\* C27: after a key has been registered again, every later Resolve of the
\* key returns a value produced by the provider registered last (the one
\* its lookup finds), never one of an earlier registration.  The key A has
\* been registered twice when both witnesses A and *A have been used.
C27_AfterReRegistration(t) ==
    /\ pc[t] = "R_rlock"
    /\ op[t].arg = "*A"
    /\ {"A", "*A"} \subseteq op[t].seen

C27_LatestProviderServes ==
    \A t \in Threads :
        C27_AfterReRegistration(t) ~>
            /\ pc[t] = "idle"
            /\ result[t].status = "ok" => target[t].pid = prov[t].pid

\* A step of goroutine t inside a Resolve whose provider is not a singleton
C30_PlainResolveStep(t) ==
    /\ pc[t] \in {"R_rlock", "R_lookup", "P_call", "R_ret"}
    /\ ~prov[t].single
    /\ pc'[t] # pc[t]

Assembled == swaggerContent # NoContent

\* Where the operation of route r is stored
DocPath(r)   == convertToOpenAPIPath(r.Path)
DocMethod(r) == ToLower(r.Method)

\* Route j is documented and no later route is stored at the same place
LastAt(rs, j) ==
    /\ ~IsDocPath(rs[j].Path)
    /\ ~\E k \in (j + 1)..Len(rs) :
          /\ ~IsDocPath(rs[k].Path)
          /\ DocPath(rs[k]) = DocPath(rs[j])
          /\ DocMethod(rs[k]) = DocMethod(rs[j])

\* The operation the document holds at the place of route r
OperationAt(doc, r) == doc.paths[DocPath(r)][DocMethod(r)]

\* C7: when two routes with the same method and the same path are registered
\* one after the other, the operation of the assembled document for that path
\* and method has the summary, description, tags and parameters of the later
\* one.
C7_LastWriteWins ==
    Assembled =>
        \A i, j \in 1..Len(routesAtSetup) :
            LET first == routesAtSetup[i]
                later == routesAtSetup[j]
            IN (/\ i < j
                /\ first.Method = later.Method
                /\ first.Path = later.Path
                /\ LastAt(routesAtSetup, j)) =>
                    /\ DocPath(later) \in DOMAIN swaggerContent.paths
                    /\ DocMethod(later) \in DOMAIN swaggerContent.paths[DocPath(later)]
                    /\ OperationAt(swaggerContent, later).summary =
                           Operation(later).summary
                    /\ OperationAt(swaggerContent, later).description =
                           Operation(later).description
                    /\ OperationAt(swaggerContent, later).tags = Operation(later).tags
                    /\ OperationAt(swaggerContent, later).parameters =
                           Operation(later).parameters

C7_Witness ==
    /\ Assembled
    /\ \E i, j \in 1..Len(routesAtSetup) :
          /\ i < j
          /\ routesAtSetup[i].Method = routesAtSetup[j].Method
          /\ routesAtSetup[i].Path = routesAtSetup[j].Path
          /\ ~IsDocPath(routesAtSetup[j].Path)
          /\ routesAtSetup[i].Summary # routesAtSetup[j].Summary
          /\ routesAtSetup[i].Parameters # routesAtSetup[j].Parameters
          /\ OperationAt(swaggerContent, routesAtSetup[j]).summary =
                 routesAtSetup[j].Summary

\* C8: for a route with a non-empty explicit parameter list the parameters of
\* the assembled operation are exactly that list, in order, with the same name,
\* location, required flag and description; nothing extracted from the path is
\* added.
C8_SameParameter(documented, param) ==
    /\ documented.name = param.Name
    /\ documented.in = param.In
    /\ documented.required = param.Required
    /\ documented.description = param.Description

C8_ExplicitParametersOnly ==
    Assembled =>
        \A j \in 1..Len(routesAtSetup) :
            LET route == routesAtSetup[j] IN
            (Len(route.Parameters) > 0 /\ LastAt(routesAtSetup, j)) =>
                LET documented == OperationAt(swaggerContent, route).parameters IN
                /\ Len(documented) = Len(route.Parameters)
                /\ \A n \in 1..Len(route.Parameters) :
                       C8_SameParameter(documented[n], route.Parameters[n])

C8_Witness ==
    /\ Assembled
    /\ \E j \in 1..Len(routesAtSetup) :
          /\ LastAt(routesAtSetup, j)
          /\ Len(routesAtSetup[j].Parameters) > 0
          /\ extractParameters(routesAtSetup[j].Path) # <<>>
          /\ Len(OperationAt(swaggerContent, routesAtSetup[j]).parameters) =
                 Len(routesAtSetup[j].Parameters)

\* C9: routes that share a converted path but differ in method all appear
\* under one path entry: the step of the assembly that handles a route keeps,
\* unaltered, every operation already recorded for another method of its path.
C9_StepKeepsOthers(rs, n) ==
    LET before == AssemblePaths(rs, n - 1)
        after  == AssemblePaths(rs, n)
        path   == DocPath(rs[n])
    IN (~IsDocPath(rs[n].Path) /\ path \in DOMAIN before) =>
          \A m \in DOMAIN before[path] :
              m # DocMethod(rs[n]) =>
                  /\ m \in DOMAIN after[path]
                  /\ after[path][m] = before[path][m]

C9_MethodsAccumulate ==
    Assembled =>
        /\ swaggerContent.paths = AssemblePaths(routesAtSetup, Len(routesAtSetup))
        /\ \A n \in 1..Len(routesAtSetup) : C9_StepKeepsOthers(routesAtSetup, n)
        /\ \A n \in 1..Len(routesAtSetup) :
              ~IsDocPath(routesAtSetup[n].Path) =>
                  /\ DocPath(routesAtSetup[n]) \in DOMAIN swaggerContent.paths
                  /\ DocMethod(routesAtSetup[n]) \in
                         DOMAIN swaggerContent.paths[DocPath(routesAtSetup[n])]

C9_Witness ==
    /\ Assembled
    /\ \E i, j \in 1..Len(routesAtSetup) :
          /\ i < j
          /\ routesAtSetup[i].Path = routesAtSetup[j].Path
          /\ routesAtSetup[i].Method # routesAtSetup[j].Method
          /\ ~IsDocPath(routesAtSetup[j].Path)
          /\ DOMAIN swaggerContent.paths[DocPath(routesAtSetup[j])] = {"get", "post"}
          /\ OperationAt(swaggerContent, routesAtSetup[i]) =
                 Operation(routesAtSetup[i])

\* C10: every body served at /openapi.json is the document assembled from the
\* routes registered when SetupRoutes ran, and is the same on every request;
\* routes added afterwards do not change it.
C10_ServedVerbatim ==
    [][/\ lastBody' # NoContent => lastBody' = getSwaggerJSON(routesAtSetup')
       /\ lastBody # NoContent => lastBody' = lastBody]_vars

C10_Witness ==
    /\ lastBody # NoContent
    /\ lastBodyRoutes > Len(routesAtSetup)
    /\ getSwaggerJSON(routes) # getSwaggerJSON(routesAtSetup)
    /\ lastBody = getSwaggerJSON(routesAtSetup)

(***************************************************************************)
(* Document assembler: scaffolding paths                                   *)
(***************************************************************************)
C11_Scaffolding ==
    { <<"/">>, <<"/", "d", "o", "c", "s">>, <<"/", "r", "e", "d", "o", "c">>,
      <<"/", "s", "w", "a", "g", "g", "e", "r", "/", "*", "a", "n", "y">>,
      <<"/", "r", "e", "d", "o", "c", "/", "i", "n", "d", "e", "x", ".", "h",
        "t", "m", "l">>,
      <<"/", "o", "p", "e", "n", "a", "p", "i", ".", "j", "s", "o", "n">>,
      <<"/", "d", "o", "c", "s", "-", "s", "t", "a", "t", "i", "c", "/", "*",
        "f", "i", "l", "e", "p", "a", "t", "h">> }

\* C11: whatever routes are registered, the assembled document has no path
\* entry for any of the seven documentation paths, and every registered
\* route with another path has its path and method in the document.
C11_ScaffoldingExcluded ==
    Assembled =>
        /\ \A p \in DOMAIN swaggerContent.paths : p \notin C11_Scaffolding
        /\ \A n \in 1..Len(routesAtSetup) :
               LET r == routesAtSetup[n] IN
               r.Path \notin C11_Scaffolding =>
                   /\ DocPath(r) \in DOMAIN swaggerContent.paths
                   /\ DocMethod(r) \in DOMAIN swaggerContent.paths[DocPath(r)]

\* A document built from a documentation path and from another path
C11_Witness ==
    /\ Assembled
    /\ \E n \in 1..Len(routesAtSetup) :
           routesAtSetup[n].Path \in {PathOpenAPI, PathDocsStatic}
    /\ \E n \in 1..Len(routesAtSetup) :
           /\ routesAtSetup[n].Path \notin C11_Scaffolding
           /\ DocPath(routesAtSetup[n]) \in DOMAIN swaggerContent.paths

(***************************************************************************)
(* extractParameters                                                       *)
(***************************************************************************)
\* The positions of a path where a segment begins with the sigil
C12_Sigils(path) ==
    {i \in 1..Len(path) : path[i] = ":" /\ (i = 1 \/ path[i - 1] = "/")}

\* The name that follows the sigil at position i, up to the next separator
C12_NameAt(path, i) ==
    LET seps == {j \in (i + 1)..Len(path) : path[j] = "/"}
        last == IF seps = {} THEN Len(path)
                ELSE (CHOOSE j \in seps : \A k \in seps : j <= k) - 1
    IN SubSeq(path, i + 1, last)

\* C12: for every path, extractParameters returns exactly one parameter per
\* segment that starts with ':', in left-to-right order, each with location
\* "path" and required = true, and nothing for the other segments.
C12_OneParameterPerSigil ==
    fnRes.fn = "extractParameters" =>
        LET path == fnArg.path
            out == fnRes.out
            sigils == C12_Sigils(path)
        IN /\ Len(out) = Cardinality(sigils)
           /\ \A i \in sigils :
                  LET n == Cardinality({j \in sigils : j <= i}) IN
                  /\ out[n].name = C12_NameAt(path, i)
                  /\ out[n]["in"] = "path"
                  /\ out[n].required = TRUE

\* "/:i/:d": two parameters in order after a segment without the sigil
C12_Witness ==
    /\ fnRes.fn = "extractParameters"
    /\ fnArg.path = <<"/", ":", "i", "/", ":", "d">>
    /\ Len(fnRes.out) = 2
    /\ fnRes.out[1].name = <<"i">>
    /\ fnRes.out[2].name = <<"d">>

\* C13: an auto-extracted path parameter is typed integer with format int64
\* exactly when its name is "id", "userId" or "user_id", and string with no
\* format for every other name; a route GET /users/:id without explicit
\* parameters yields, at /users/{id} under get, one parameter named id, in
\* path, of type integer and format int64.
C13_IdentifierNamesAreIntegers ==
    Assembled =>
        \A n \in 1..Len(routesAtSetup) :
            LET r == routesAtSetup[n] IN
            (Len(r.Parameters) = 0 /\ LastAt(routesAtSetup, n)) =>
                LET ps == OperationAt(swaggerContent, r).parameters IN
                /\ \A k \in 1..Len(ps) :
                       IF ps[k].name \in { <<"i", "d">>,
                                           <<"u", "s", "e", "r", "I", "d">>,
                                           <<"u", "s", "e", "r", "_", "i", "d">> }
                       THEN /\ ps[k].type = "integer"
                            /\ "format" \in DOMAIN ps[k]
                            /\ ps[k].format = "int64"
                       ELSE /\ ps[k].type = "string"
                            /\ "format" \notin DOMAIN ps[k]
                /\ (r.Method = "GET" /\ r.Path = PathUsersId) =>
                       LET us == swaggerContent.paths[
                                     <<"/", "u", "s", "e", "r", "s", "/",
                                       "{", "i", "d", "}">>]["get"].parameters
                       IN /\ Len(us) = 1
                          /\ us[1].name = <<"i", "d">>
                          /\ us[1]["in"] = "path"
                          /\ us[1].type = "integer"
                          /\ us[1].format = "int64"

\* A document with GET /users/:id and a route whose parameter name only
\* resembles an identifier name
C13_Witness ==
    /\ Assembled
    /\ Len(routesAtSetup) = 2
    /\ routesAtSetup[1].Method = "GET"
    /\ routesAtSetup[1].Path = PathUsersId
    /\ routesAtSetup[2].Path = PathFor(<<"u", "s", "e", "r", "i", "d">>)
    /\ OperationAt(swaggerContent, routesAtSetup[1]).parameters[1].type = "integer"
    /\ OperationAt(swaggerContent, routesAtSetup[2]).parameters[1].type = "string"

(***************************************************************************)
(* Parameters added by route options                                       *)
(***************************************************************************)
\* C14: every parameter added by WithParameter, WithPathParameter,
\* WithQueryParameter, WithRequestBody or WithJSONSchema has location body if
\* and only if it carries a schema, and the assembled document emits a body
\* parameter with a schema and no type and every other parameter with a type
\* and no schema.
C14_BodyIffSchema ==
    /\ \A n \in 1..Len(routes) :
           \A k \in 1..Len(routes[n].Parameters) :
               LET param == routes[n].Parameters[k] IN
               (param.In = "body") <=> (param.Schema # NoSchema)
    /\ Assembled =>
           \A n \in 1..Len(routesAtSetup) :
               LastAt(routesAtSetup, n) =>
                   LET ps == OperationAt(swaggerContent, routesAtSetup[n]).parameters
                   IN \A k \in 1..Len(ps) :
                          IF ps[k]["in"] = "body"
                          THEN "schema" \in DOMAIN ps[k] /\ "type" \notin DOMAIN ps[k]
                          ELSE "type" \in DOMAIN ps[k] /\ "schema" \notin DOMAIN ps[k]

(***************************************************************************)
(* Schema synthesis                                                        *)
(***************************************************************************)
\* The record an example is or points to
C15_Record(example) == IF example.kind = "ptr" THEN example.elem ELSE example

\* The options of a json tag are the parts after its name
C15_OmitEmpty(field) == \E i \in 2..Len(field.json) : field.json[i] = "omitempty"

\* The documented name: the name part of the tag unless there is no tag,
\* the tag is "-" or the name part is empty
C15_Name(field) ==
    IF field.json \in {<<"">>, <<"-">>} \/ field.json[1] = ""
    THEN field.Name ELSE field.json[1]

\* The required list of a schema; a schema without the key has none
C15_RequiredOf(schema) ==
    IF "required" \in DOMAIN schema THEN schema.required ELSE <<>>

\* C15: for every flat record example with primitive fields the required
\* list of the synthesized schema is exactly the sequence of the names (tag
\* name if present and not "-", else declared name) of the fields whose tag
\* does not carry omitempty, in declaration order; fields without a tag are
\* required.
C15_RequiredList ==
    fnRes.fn = "generateSchemaFromStruct" =>
        LET fields == C15_Record(fnArg.example).fields
            kept == {i \in 1..Len(fields) : ~C15_OmitEmpty(fields[i])}
            required == C15_RequiredOf(fnRes.out)
        IN /\ Len(required) = Cardinality(kept)
           /\ \A i \in kept :
                  required[Cardinality({j \in kept : j <= i})] = C15_Name(fields[i])
           /\ \A i \in 1..Len(fields) :
                  fields[i].json = <<"">> => \E n \in 1..Len(required) :
                                                required[n] = fields[i].Name

\* An untagged field after an omitempty field: the list holds the second only
C15_Witness ==
    /\ fnRes.fn = "generateSchemaFromStruct"
    /\ Len(fnArg.example.fields) = 2
    /\ fnArg.example.fields[1].json = <<"n", "omitempty">>
    /\ fnArg.example.fields[2].json = <<"">>
    /\ fnRes.out.required = <<"B">>

\* The example is a struct, or a non-nil pointer to one
C16_IsRecord(example) ==
    \/ example.kind = "struct"
    \/ example.kind = "ptr" /\ ~example.isNil /\ example.elem.kind = "struct"

\* C16: schema synthesis produces properties only for struct examples,
\* possibly behind a non-nil pointer; a nil example yields an object schema
\* with no properties and no example; a nil pointer yields an object schema
\* without properties; a scalar or collection example yields an object schema
\* whose example is the raw value and whose properties are empty.
C16_PropertiesOnlyForRecords ==
    fnRes.fn = "generateSchemaFromStruct" =>
        LET example == fnArg.example
            out == fnRes.out
        IN /\ out.type = "object"
           /\ DOMAIN out.properties # {} => C16_IsRecord(example)
           /\ C16_IsRecord(example) =>
                  LET fields == C15_Record(example).fields IN
                  DOMAIN out.properties = {C15_Name(fields[i]) : i \in 1..Len(fields)}
           /\ example.kind = "nil" =>
                  /\ DOMAIN out = {"type", "properties"}
                  /\ DOMAIN out.properties = {}
           /\ (example.kind = "ptr" /\ example.isNil) =>
                  /\ DOMAIN out.properties = {}
                  /\ "required" \notin DOMAIN out
           /\ example.kind \in {"string", "int", "bool", "float64",
                                "slice", "array", "map"} =>
                  /\ "example" \in DOMAIN out
                  /\ out.example = example
                  /\ DOMAIN out.properties = {}

\* The nil example has been synthesized
C16_Witness ==
    /\ fnRes.fn = "generateSchemaFromStruct"
    /\ fnArg.example = NoSchema
    /\ DOMAIN fnRes.out.properties = {}

\* The value behind the non-nil pointers of a field value
RECURSIVE C17_Pointee(_)
C17_Pointee(v) ==
    IF v.kind = "ptr" /\ ~v.isNil THEN C17_Pointee(v.elem) ELSE v

\* The table of the claim: <<type, format>>, "" for no format
C17_Table(kind) ==
    CASE kind \in {"int", "int8", "int16", "int32", "int64",
                   "uint", "uint8", "uint16", "uint32", "uint64"} ->
             <<"integer", "int64">>
      [] kind = "float32" -> <<"number", "float">>
      [] kind = "float64" -> <<"number", "double">>
      [] kind = "bool" -> <<"boolean", "">>
      [] kind = "string" -> <<"string", "">>
      [] kind \in {"slice", "array"} -> <<"array", "">>
      [] OTHER -> <<"string", "">>

C18_Names(message, s) == \E k \in 1..Len(message) : message[k] = s

\* C18: FormatValidationErrors returns one ValidationError per field failure,
\* in input order, with field, tag and string-form value copied from the
\* failure and a message that depends on (tag, field, parameter) only: each
\* of required, min, max, email, url, len, gte, lte has its own template, any
\* other tag gets the fallback template naming the field and the raw tag, and
\* an input that is not a validator failure collection yields the empty
\* sequence.
C18_OneErrorPerFailure ==
    fnRes.fn = "FormatValidationErrors" =>
        LET err == fnArg.err
            out == fnRes.out
        IN IF err.kind # "validator.ValidationErrors" THEN out = <<>>
           ELSE
           /\ Len(out) = Len(err.errs)
           /\ \A n \in 1..Len(out) :
                  /\ out[n].Field = err.errs[n].Field
                  /\ out[n].Tag = err.errs[n].Tag
                  /\ out[n].Value = IF err.errs[n].Value.t = "int"
                                    THEN <<"1", "7">> ELSE <<"a", "b">>
                  /\ C18_Names(out[n].Message, err.errs[n].Field)
                  /\ err.errs[n].Tag \in {"alpha", "oneof"} =>
                         /\ C18_Names(out[n].Message, err.errs[n].Tag)
                         /\ Len(out[n].Message) = 5
                  /\ (err.errs[n].Tag = "required" /\ err.errs[n].Field = "email") =>
                         out[n].Message = <<"El campo '", "email", "' es requerido">>
           /\ \A n, m \in 1..Len(out) :
                  LET a == err.errs[n]
                      b == err.errs[m]
                  IN /\ (a.Tag = b.Tag /\ a.Field = b.Field /\ a.Param = b.Param)
                            => out[n].Message = out[m].Message
                     /\ (a.Tag # b.Tag /\ a.Field = b.Field /\ a.Param = b.Param)
                            => out[n].Message # out[m].Message
                     /\ (a.Tag \in {"alpha", "oneof"} /\ b.Tag \in {"alpha", "oneof"})
                            => [out[n].Message EXCEPT ![2] = "", ![4] = ""]
                                 = [out[m].Message EXCEPT ![2] = "", ![4] = ""]

\* Two failures of one field, gte with an int value then lte with a string
C18_Witness ==
    /\ fnRes.fn = "FormatValidationErrors"
    /\ Len(fnRes.out) = 2
    /\ fnRes.out[1].Tag = "gte"
    /\ fnRes.out[2].Tag = "lte"
    /\ fnRes.out[1].Field = fnRes.out[2].Field
    /\ fnArg.err.errs[1].Param = fnArg.err.errs[2].Param
    /\ fnRes.out[1].Value = <<"1", "7">>
    /\ fnRes.out[2].Value = <<"a", "b">>

(***************************************************************************)
(* Query parameters: properties                                            *)
(***************************************************************************)
\* The key has no first value
C19_NoValue(queryValues, name) ==
    name \notin DOMAIN queryValues \/ Len(queryValues[name]) = 0

\* What each raw value of the requests is as a value of each type
C19_Value(type, raw) ==
    CASE type = "int" /\ raw = <<"1">> -> [t |-> "int", v |-> 1]
      [] type = "int64" /\ raw = <<"1">> -> [t |-> "int64", v |-> 1]
      [] type = "float64" /\ raw = <<"1">> -> [t |-> "float64", v |-> <<1, 1>>]
      [] type = "float64" /\ raw = <<"1", ".", "5">> ->
             [t |-> "float64", v |-> <<15, 10>>]
      [] type = "bool" /\ raw = <<"1">> -> [t |-> "bool", v |-> TRUE]
      [] type \notin {"int", "int64", "float64", "bool"} ->
             [t |-> "string", v |-> raw]
      [] OTHER -> [t |-> "fail", v |-> 0]

\* The statement about ParseQueryParams, with an empty first value counted
\* as a missing parameter (emptyIsMissing) or as a present value
C19_Statement(emptyIsMissing) ==
    fnRes.fn = "ParseQueryParams" =>
        LET q == fnArg.queryValues
            params == fnArg.params
            out == fnRes.out
            Empty(i) == /\ ~C19_NoValue(q, params[i].Name)
                        /\ q[params[i].Name][1] = <<>>
            Missing(i) == \/ C19_NoValue(q, params[i].Name)
                          \/ emptyIsMissing /\ Empty(i)
            Fails(i) ==
                \/ params[i].Required /\ (Missing(i) \/ Empty(i))
                \/ /\ ~Missing(i)
                   /\ C19_Value(params[i].Type, q[params[i].Name][1]).t = "fail"
            failing == {i \in 1..Len(params) : Fails(i)}
        IN /\ out.result.isNil <=> ~out.err.isNil
           /\ ~out.err.isNil => Len(out.err.errs) > 0
           /\ ~out.err.isNil <=> failing # {}
           /\ ~out.err.isNil =>
                  /\ Len(out.err.errs) = Cardinality(failing)
                  /\ \A i \in failing :
                         out.err.errs[Cardinality({j \in failing : j <= i})].Field
                             = params[i].Name
           /\ out.err.isNil =>
                  /\ \A i \in 1..Len(params) :
                         LET name == params[i].Name IN
                         IF Missing(i)
                         THEN IF params[i].DefaultValue.t # "nil"
                              THEN /\ name \in DOMAIN out.result.m
                                   /\ out.result.m[name] = params[i].DefaultValue
                              ELSE name \notin DOMAIN out.result.m
                         ELSE /\ name \in DOMAIN out.result.m
                              /\ out.result.m[name]
                                     = C19_Value(params[i].Type, q[name][1])
                  /\ DOMAIN out.result.m \subseteq
                         {params[i].Name : i \in 1..Len(params)}

\* C19 as stated: ParseQueryParams returns a map with a nil error or a nil
\* map with non-empty errors; it fails exactly when a declared parameter is
\* required but missing or empty, or has a first value that cannot be coerced
\* to its type, with one entry per failing parameter in declaration order; on
\* success a present value is coerced (string and unrecognized types pass the
\* raw first value through), a missing optional parameter takes its default
\* or is absent, and undeclared keys never appear.
C19_EmptyIsAValue == C19_Statement(FALSE)

\* C19 amended: the same, where a parameter whose first value is empty is
\* treated as missing whether it is required or optional: an optional one
\* takes its default or is absent, and its empty value is never coerced.
C19_EmptyIsMissing == C19_Statement(TRUE)

\* An optional int parameter with a default sent empty, then a float64
C19_Witness ==
    /\ fnRes.fn = "ParseQueryParams"
    /\ Len(fnArg.params) = 2
    /\ ~fnArg.params[1].Required
    /\ fnArg.params[1].Type = "int"
    /\ "p" \in DOMAIN fnArg.queryValues
    /\ fnArg.queryValues["p"] = <<<<>>>>
    /\ fnArg.params[2].Type = "float64"
    /\ ~fnRes.out.result.isNil
    /\ DOMAIN fnRes.out.result.m = {"p", "q"}
    /\ fnRes.out.result.m["p"] = DefaultInput
    /\ fnRes.out.result.m["q"] = [t |-> "float64", v |-> <<15, 10>>]

(***************************************************************************)
(* Route groups: properties                                                *)
(***************************************************************************)
\* The strings of a list written one after the other
RECURSIVE C20_Concat(_)
C20_Concat(strings) ==
    IF strings = <<>> THEN <<>> ELSE Head(strings) \o C20_Concat(Tail(strings))

\* C20: every route registered through a group is added to the registry
\* exactly once, with the method of the function called and with the path
\* that is the plain concatenation of all enclosing group prefixes, outermost
\* first, followed by the supplied path.
C20_GroupRoutesConcatenate ==
    /\ Len(routes) = Len(routeOrigin)
    /\ \A n \in 1..Len(routes) :
           routeOrigin[n].via = "RouterGroup" =>
               /\ routes[n].Method = routeOrigin[n].fn
               /\ routes[n].Path =
                      C20_Concat(routeOrigin[n].prefixes) \o routeOrigin[n].path

\* PATCH "/b" on the group "/a" of the group "/a/": the route /a//a/b
C20_Witness ==
    \E n \in 1..Len(routes) :
        /\ routeOrigin[n].via = "RouterGroup"
        /\ routeOrigin[n].prefixes = <<<<"/", "a", "/">>, <<"/", "a">>>>
        /\ routeOrigin[n].fn = "PATCH"
        /\ routes[n].Method = "PATCH"
        /\ routes[n].Path = <<"/", "a", "/", "/", "a", "/", "b">>

(***************************************************************************)
(* Options: properties                                                     *)
(***************************************************************************)
\* The value the last option of a kind sets, none when no option sets it
C21_LastSet(opts, kind, field, none) ==
    LET setters == {i \in 1..Len(opts) : opts[i].opt = kind} IN
    IF setters = {} THEN none
    ELSE opts[CHOOSE i \in setters : \A j \in setters : j <= i][field]

\* The tags the first n options add, in the order of the options
RECURSIVE C21_TagsAdded(_, _)
C21_TagsAdded(opts, n) ==
    IF n = 0 THEN <<>>
    ELSE C21_TagsAdded(opts, n - 1)
             \o (IF opts[n].opt = "tags" THEN opts[n].tags ELSE <<>>)

\* The parameters the first n options add, in the order of the options
RECURSIVE C21_ParametersAdded(_, _)
C21_ParametersAdded(opts, n) ==
    IF n = 0 THEN <<>>
    ELSE C21_ParametersAdded(opts, n - 1)
             \o (IF opts[n].opt = "parameter" THEN <<opts[n].parameter>> ELSE <<>>)

\* C21: AddRoute applies the options in the order given: the summary and the
\* description of the route are the values the last option setting them
\* gives, the tags and the parameters are every added element in the order
\* of the options.
C21_OptionsInOrder ==
    fnArg.fn = "AddRoute" =>
        \A n \in 1..Len(routes) :
            /\ routes[n].Summary = C21_LastSet(fnArg.opts, "summary", "summary", "")
            /\ routes[n].Description =
                   C21_LastSet(fnArg.opts, "description", "description", "")
            /\ routes[n].Tags = C21_TagsAdded(fnArg.opts, Len(fnArg.opts))
            /\ routes[n].Parameters =
                   C21_ParametersAdded(fnArg.opts, Len(fnArg.opts))

\* WithSummary("s1"), WithTags("b", "a"), WithSummary("s2"), WithTags("a")
C21_Witness ==
    /\ fnArg.fn = "AddRoute"
    /\ fnArg.opts = <<WithSummary("s1"), WithTags(<<"b", "a">>),
                      WithSummary("s2"), WithTags(<<"a">>)>>
    /\ Len(routes) = 1
    /\ routes[1].Summary = "s2"
    /\ routes[1].Tags = <<"b", "a", "a">>

(***************************************************************************)
(* Registry: append-only                                                   *)
(***************************************************************************)
\* C22: the route registry is append-only: every step leaves the routes
\* already registered where they are, a call of AddRoute (direct or through
\* a group) adds exactly one route at the end, and no step removes a route.
C22_AppendOnly ==
    [][/\ Len(routes') \in {Len(routes), Len(routes) + 1}
       /\ SubSeq(routes', 1, Len(routes)) = routes
       /\ routeOrigin' # routeOrigin =>
              /\ Len(routes') = Len(routes) + 1
              /\ Len(routeOrigin') = Len(routeOrigin) + 1]_vars

\* A direct registration, then one through a group, then SetupRoutes and a
\* request for the document
C22_Witness ==
    /\ Len(routes) = 2
    /\ routeOrigin[1].via = "AddRoute"
    /\ routeOrigin[2].via = "RouterGroup"
    /\ routes[1].Path = PathA
    /\ routes[2].Path = <<"/", "a", "/", "b">>
    /\ setupState = "done"
    /\ lastBody # NoContent

(***************************************************************************)
(* Operations: fallbacks                                                   *)
(***************************************************************************)
\* C23: in the assembled document the summary of an operation is the
\* summary of its route when that is not empty and "API endpoint" otherwise,
\* its description is the description of the route when that is not empty
\* and "API endpoint description" otherwise, its tags are the tags of the
\* route when there is one and the single tag "default" otherwise, and the
\* operation has exactly one response, keyed "200".
C23_Fallbacks ==
    Assembled =>
        \A n \in 1..Len(routesAtSetup) :
            LastAt(routesAtSetup, n) =>
                LET route == routesAtSetup[n]
                    operation == OperationAt(swaggerContent, route)
                IN
                /\ operation.summary =
                       (IF route.Summary # "" THEN route.Summary ELSE "API endpoint")
                /\ operation.description =
                       (IF route.Description # "" THEN route.Description
                        ELSE "API endpoint description")
                /\ operation.tags =
                       (IF Len(route.Tags) >= 1 THEN route.Tags ELSE <<"default">>)
                /\ DOMAIN operation.responses = {"200"}

\* A route with a summary, without description and tags and with a declared
\* 404 response, in the assembled document
C23_Witness ==
    /\ Assembled
    /\ Len(routesAtSetup) = 1
    /\ routesAtSetup[1].Summary = "s1"
    /\ routesAtSetup[1].Description = ""
    /\ routesAtSetup[1].Tags = <<>>
    /\ DOMAIN routesAtSetup[1].Responses = {404}
    /\ OperationAt(swaggerContent, routesAtSetup[1]).summary = "s1"
    /\ OperationAt(swaggerContent, routesAtSetup[1]).tags = <<"default">>

(***************************************************************************)
(* Rate limiter: properties                                                *)
(***************************************************************************)
\* C24: with RequestsPerMinute = N, between two resets of the counters no
\* client IP has more than N requests passed on to the next handler, also
\* when requests are handled concurrently; every request beyond N in the
\* interval is answered 429 and aborted.
C24_AtMostNPassed ==
    \A ip \in ClientIPs : passed[ip] <= requestsPerMinute

(***************************************************************************)
(* Placeholders and path parameters                                        *)
(***************************************************************************)
\* The operation of route r lists a path parameter for the ':x' segment at
\* position i of its path, that is for the placeholder {x} it is converted to
C29_Listed(doc, r, i) ==
    \E k \in 1..Len(OperationAt(doc, r).parameters) :
        /\ OperationAt(doc, r).parameters[k].name = C12_NameAt(r.Path, i)
        /\ OperationAt(doc, r).parameters[k]["in"] = "path"

\* It does so for every placeholder of the path
C29_PlaceholdersListed(doc, r) ==
    \A i \in C12_Sigils(r.Path) : C29_Listed(doc, r, i)

\* C29 as stated: in the assembled document, for every path containing a
\* placeholder {x} converted from a ':x' segment, each operation under that
\* path lists a parameter named x with location path.
C29_EveryPlaceholderListed ==
    Assembled =>
        \A n \in 1..Len(routesAtSetup) :
            LastAt(routesAtSetup, n) =>
                C29_PlaceholdersListed(swaggerContent, routesAtSetup[n])

\* C29 amended: the operation of a route registered without explicit
\* parameters lists a parameter named x with location path for every
\* placeholder {x} of its path; the operation of a route with explicit
\* parameters lists a path parameter x exactly when the route declares one.
C29_PlaceholdersOfUndeclaredRoutes ==
    Assembled =>
        \A n \in 1..Len(routesAtSetup) :
            LastAt(routesAtSetup, n) =>
                LET r == routesAtSetup[n] IN
                IF Len(r.Parameters) = 0
                THEN C29_PlaceholdersListed(swaggerContent, r)
                ELSE \A i \in C12_Sigils(r.Path) :
                        C29_Listed(swaggerContent, r, i) <=>
                            \E k \in 1..Len(r.Parameters) :
                                /\ r.Parameters[k].Name = C12_NameAt(r.Path, i)
                                /\ r.Parameters[k].In = "path"

\* POST /users/:id without options beside GET /users/:id with a query
\* parameter and a body: the first lists id, the second does not
C29_Witness ==
    /\ Assembled
    /\ Len(routesAtSetup) = 2
    /\ routesAtSetup[1].Method = "POST"
    /\ routesAtSetup[1].Path = PathUsersId
    /\ routesAtSetup[1].Parameters = <<>>
    /\ OperationAt(swaggerContent, routesAtSetup[1]).parameters[1].name = NameId
    /\ routesAtSetup[2].Method = "GET"
    /\ routesAtSetup[2].Path = PathUsersId
    /\ Len(routesAtSetup[2].Parameters) = 2
    /\ ~C29_PlaceholdersListed(swaggerContent, routesAtSetup[2])

====
